---- MODULE Spec2Model ----
(***************************************************************************)
(* The on-demand SLG evaluator of chalk (src/solve/slg/on_demand/logic.rs) *)
(* as a state machine.  The recursion of ensure_answer_recursively /       *)
(* pursue_next_strand / pursue_strand / pursue_{positive,negative}_subgoal *)
(* is unfolded into an explicit control stack `ctl`, so that every call    *)
(* and every return of the source is a state of the model.                 *)
(*                                                                         *)
(* Terms.  Goals are atoms pred(arg).  In a table goal arg is a small      *)
(* constant ("a", "b") or "?", the canonical existential variable.  In a   *)
(* literal of an ex-clause arg is a small constant, "V" (the strand's      *)
(* unbound inference variable) or "big" (a ground term larger than         *)
(* max_size).  Bindings made by unification are applied eagerly to the     *)
(* ex-clause, which is what normalize_deep would show.  Every goal lives   *)
(* in the root universe, so universe_map is the identity and is omitted.   *)
(*                                                                         *)
(* Indices.  Tables, stack depths and subgoal positions are 1-based here   *)
(* (Rust index + 1); answer indices and DFNs keep their Rust values.       *)
(***************************************************************************)
EXTENDS Integers, Sequences, FiniteSets, TLC

VARIABLES
    program,    \* Forest::program (immutable): clauses, coinductive predicates
    tables,     \* Forest::tables: sequence of Table
    stack,      \* Forest::stack: sequence of StackEntry {table, dfn}
    dfn,        \* Forest::dfn: the next depth-first number
    ctl,        \* the native call stack: one frame per suspended call
    pc,         \* what the evaluator does next
    reg,        \* the argument or the return value in flight
    result,     \* what the last ensure_root_answer returned
    discipline  \* the order in which pop_next_strand takes strands

vars == <<program, tables, stack, dfn, ctl, pc, reg, result, discipline>>

----------------------------------------------------------------------------
(* Bounds of the model *)

\* The driver makes no further request once this many DFNs are allocated.
MaxDfn == 5

\* DepthFirstNumber::MAX, the sentinel of Minimums.negative (u64::MAX in the
\* source; here the largest integer of TLC).
DfnMAX == 2147483647

----------------------------------------------------------------------------
(* Small helpers on sequences *)

RemoveAt(s, i) == SubSeq(s, 1, i - 1) \o SubSeq(s, i + 1, Len(s))

Range(s) == {s[i] : i \in 1..Len(s)}

Min2(x, y) == IF x <= y THEN x ELSE y

----------------------------------------------------------------------------
(* Data *)

Lit(neg, pred, arg) == [neg |-> neg, pred |-> pred, arg |-> arg]

Goal(neg, pred, arg) == [neg |-> neg, pred |-> pred, arg |-> arg]

Clause(pred, arg, body, constraints) ==
    [head |-> [pred |-> pred, arg |-> arg], body |-> body, constraints |-> constraints]

\* Option<SelectedSubgoal>::None
NoSelected == [subgoal_index |-> 0, subgoal_table |-> 0, answer_index |-> 0]

\* AnswerIndex::ZERO
AnswerIndexZERO == 0

\* DelayedLiteral, in the order of the enum (which is the order of sort())
CannotProve == [kind |-> "CannotProve", table |-> 0, subst |-> "-", constraints |-> {}]

Negative(table) == [kind |-> "Negative", table |-> table, subst |-> "-", constraints |-> {}]

Positive(table, subst, constraints) ==
    [kind |-> "Positive", table |-> table, subst |-> subst, constraints |-> constraints]

\* Minimums
Minimums(positive, negative) == [positive |-> positive, negative |-> negative]

MinimumsMAX == Minimums(DfnMAX, DfnMAX)

TakeMinimums(m, other) ==
    Minimums(Min2(m.positive, other.positive), Min2(m.negative, other.negative))

MinimumOfPosAndNeg(m) == Min2(m.positive, m.negative)

----------------------------------------------------------------------------
(* Strands and ex-clauses *)

ExClause(subst, constraints, subgoals, delayed_literals) ==
    [subst |-> subst, constraints |-> constraints, subgoals |-> subgoals,
     delayed_literals |-> delayed_literals]

Strand(ex_clause, selected_subgoal) ==
    [ex_clause |-> ex_clause, selected_subgoal |-> selected_subgoal]

\* The effect of binding the strand's inference variable to the constant c:
\* every occurrence in the remaining subgoals and the substitution shows c.
BindVar(ex, c) ==
    [ex EXCEPT !.subst = c,
               !.subgoals = [i \in 1..Len(ex.subgoals) |->
                   IF ex.subgoals[i].arg = "V"
                   THEN [ex.subgoals[i] EXCEPT !.arg = c]
                   ELSE ex.subgoals[i]]]

----------------------------------------------------------------------------
(* The collaborators of the evaluator (spec sections 4.2 to 4.4, 6) *)

\* truncate::truncate(infer, max_size, term).overflow
Overflow(arg) == arg = "big"

\* truncate: a term larger than max_size is replaced by a fresh existential
Truncate(arg) == IF Overflow(arg) THEN "V" ELSE arg

\* InferenceTable::canonicalize on the argument of a goal
Canonicalize(arg) == IF arg = "V" THEN "?" ELSE arg

\* InferenceTable::invert: None when the goal has a free existential
InvertFails(arg) == arg = "V"

\* UCanonicalGoal::is_coinductive
IsCoinductive(prog, goal) == ~goal.neg /\ goal.pred \in prog.coinductive

\* is_trivial_substitution: every variable of the goal is mapped to itself
IsTrivialSubstitution(goal, subst) == subst \in {"-", "?"}

\* resolvent::resolvent_clause: unify the head of the clause with the goal
ResolventClause(goal, clause) ==
    LET h == clause.head.arg
        g == goal.arg
        inst(c) == [i \in 1..Len(clause.body) |->
                       IF clause.body[i].arg = "X"
                       THEN [clause.body[i] EXCEPT !.arg = c]
                       ELSE clause.body[i]]
    IN  IF h = "X"
        THEN [sat |-> TRUE,
              ex_clause |-> ExClause(IF g = "?" THEN "?" ELSE "-", clause.constraints,
                                     inst(IF g = "?" THEN "V" ELSE g), <<>>)]
        ELSE IF g = "?"
        THEN [sat |-> TRUE,
              ex_clause |-> ExClause(h, clause.constraints, clause.body, <<>>)]
        ELSE [sat |-> h = g,
              ex_clause |-> ExClause("-", clause.constraints, clause.body, <<>>)]

\* slg::simplify_hh_goal for the goal not(pred(arg)): one negative literal
SimplifyHhGoal(goal) ==
    ExClause(IF goal.arg = "?" THEN "?" ELSE "-", {},
             <<Lit(TRUE, goal.pred, IF goal.arg = "?" THEN "V" ELSE goal.arg)>>, <<>>)

\* resolvent::apply_answer_subst: unify the selected literal with the answer
ApplyAnswerSubst(ex, literal, table_goal, answer) ==
    LET inst == IF table_goal.arg = "?" THEN answer.subst ELSE table_goal.arg
        ex1 == [ex EXCEPT !.constraints = @ \cup answer.constraints]
    IN  IF inst = "?" THEN [sat |-> TRUE, ex_clause |-> ex1]
        ELSE IF literal.arg = "V" THEN [sat |-> TRUE, ex_clause |-> BindVar(ex1, inst)]
        ELSE [sat |-> literal.arg = inst, ex_clause |-> ex1]

\* ExClause::truncate_returned: no substitution of the programs modelled here
\* holds a term larger than max_size, so truncate reports no overflow.
TruncateReturned(ex) == ex

----------------------------------------------------------------------------
(* Table (table.rs) *)

\* Table::answer(index).is_some()
HasAnswer(tbl, answer) == answer < Len(tbl.answers)

\* Table::answer(index).unwrap()
AnswerAt(tbl, answer) == tbl.answers[answer + 1]

\* Table::next_answer_index
NextAnswerIndex(tbl) == Len(tbl.answers)

\* Answer::is_unconditional
IsUnconditional(answer) == answer.delayed_literals = <<>> /\ answer.constraints = {}

\* Table::push_strand
PushStrand(tbls, table, strand) ==
    [tbls EXCEPT ![table].strands = Append(@, strand)]

\* Table::extend_strands
ExtendStrands(tbls, table, strands) ==
    [tbls EXCEPT ![table].strands = @ \o strands]

\* Table::take_strands
TakeStrands(tbls, table) == [tbls EXCEPT ![table].strands = <<>>]

\* Table::push_answer: true iff the answer is new
IsNewAnswer(tbl, answer) == answer \notin Range(tbl.answers)

\* Tables::index_of, 0 for None
IndexOf(tbls, goal) ==
    IF \E i \in 1..Len(tbls) : tbls[i].table_goal = goal
    THEN CHOOSE i \in 1..Len(tbls) : tbls[i].table_goal = goal
    ELSE 0

----------------------------------------------------------------------------
(* Stack (stack.rs) *)

\* Stack::is_active: the depth of the frame of the table, 0 for None
IsActive(stk, table) ==
    IF \E d \in 1..Len(stk) : stk[d].table = table
    THEN CHOOSE d \in 1..Len(stk) : stk[d].table = table /\
             \A e \in 1..(d - 1) : stk[e].table # table
    ELSE 0

\* Forest::top_of_stack_is_coinductive_from
TopOfStackIsCoinductiveFrom(tbls, stk, depth) ==
    \A d \in depth..Len(stk) : tbls[stk[d].table].coinductive_goal

\* Stack::push
StackPush(stk, table, d) == Append(stk, [table |-> table, dfn |-> d])

\* Stack::pop(table, depth)
StackPop(stk) == SubSeq(stk, 1, Len(stk) - 1)

----------------------------------------------------------------------------
(* DelayedLiteralSet: the delayed literals sorted and deduplicated *)

KindRank(d) == CASE d.kind = "CannotProve" -> 0
                 [] d.kind = "Negative" -> 1
                 [] OTHER -> 2

SubstRank(subst) == CASE subst = "-" -> 0
                      [] subst = "?" -> 1
                      [] subst = "a" -> 2
                      [] OTHER -> 3

ConstraintRank(cs) == (IF "r1" \in cs THEN 1 ELSE 0) + (IF "r2" \in cs THEN 2 ELSE 0)

\* The derived Ord of DelayedLiteral as an integer key
LiteralRank(d) ==
    KindRank(d) * 10000 + d.table * 100 + SubstRank(d.subst) * 10 + ConstraintRank(d.constraints)

RECURSIVE InsertSorted(_, _)
InsertSorted(sorted, d) ==
    IF sorted = <<>> THEN <<d>>
    ELSE IF LiteralRank(d) <= LiteralRank(Head(sorted)) THEN <<d>> \o sorted
    ELSE <<Head(sorted)>> \o InsertSorted(Tail(sorted), d)

\* Vec::sort
RECURSIVE SortLiterals(_)
SortLiterals(ds) ==
    IF ds = <<>> THEN <<>> ELSE InsertSorted(SortLiterals(Tail(ds)), Head(ds))

\* Vec::dedup: drop consecutive repeats
RECURSIVE Dedup(_)
Dedup(ds) ==
    IF Len(ds) <= 1 THEN ds
    ELSE IF ds[1] = ds[2] THEN Dedup(Tail(ds))
    ELSE <<Head(ds)>> \o Dedup(Tail(ds))

\* The delayed literals as the strand collected them: no sort, no dedup
DelayedLiteralsAsCollected(delayed_literals) == delayed_literals

\* pursue_answer building the DelayedLiteralSet: sort, then dedup
MakeDelayedLiteralSet(delayed_literals) == Dedup(SortLiterals(delayed_literals))

----------------------------------------------------------------------------
(* Table creation *)

\* slg::clauses followed by resolvent_clause: one strand per satisfiable
\* clause, in the order of the program
RECURSIVE ClauseStrands(_, _, _)
ClauseStrands(prog, goal, i) ==
    IF i > Len(prog.clauses) THEN <<>>
    ELSE LET clause == prog.clauses[i]
             r == ResolventClause(goal, clause)
         IN  IF clause.head.pred = goal.pred /\ r.sat
             THEN <<Strand(r.ex_clause, NoSelected)>> \o ClauseStrands(prog, goal, i + 1)
             ELSE ClauseStrands(prog, goal, i + 1)

\* Forest::push_initial_strands
InitialStrands(prog, goal) ==
    IF goal.neg
    THEN <<Strand(SimplifyHhGoal(goal), NoSelected)>>
    ELSE ClauseStrands(prog, goal, 1)

\* get_or_create_table_for_ucanonical_goal without the look-up of the goal
TablesWithGoalAlwaysCreated(prog, tbls, goal) ==
    Append(tbls, [table_goal |-> goal,
                  coinductive_goal |-> IsCoinductive(prog, goal),
                  answers |-> <<>>,
                  strands |-> InitialStrands(prog, goal)])

\* Forest::get_or_create_table_for_ucanonical_goal: the tables afterwards
TablesWithGoal(prog, tbls, goal) ==
    IF IndexOf(tbls, goal) # 0 THEN tbls
    ELSE Append(tbls, [table_goal |-> goal,
                       coinductive_goal |-> IsCoinductive(prog, goal),
                       answers |-> <<>>,
                       strands |-> InitialStrands(prog, goal)])

\* Forest::abstract_positive_literal
AbstractPositiveLiteral(literal) ==
    Goal(FALSE, literal.pred, Canonicalize(Truncate(literal.arg)))

\* Forest::abstract_negative_literal: None when the literal flounders
AbstractNegativeLiteral(literal) ==
    IF InvertFails(literal.arg) \/ Overflow(literal.arg)
    THEN [some |-> FALSE, goal |-> Goal(FALSE, literal.pred, "?")]
    ELSE [some |-> TRUE, goal |-> Goal(FALSE, literal.pred, Canonicalize(literal.arg))]

\* Forest::get_or_create_table_for_subgoal: the canonical goal, or None
SubgoalGoal(literal) ==
    IF literal.neg THEN AbstractNegativeLiteral(literal)
    ELSE [some |-> TRUE, goal |-> AbstractPositiveLiteral(literal)]

----------------------------------------------------------------------------
(* pursue_answer *)

\* The answer a strand without subgoals stands for
StrandAnswer(strand) ==
    [subst |-> strand.ex_clause.subst,
     constraints |-> strand.ex_clause.constraints,
     delayed_literals |-> MakeDelayedLiteralSet(strand.ex_clause.delayed_literals)]

\* is_trivial_answer without the test of the region constraints
IsTrivialAnswerDespiteConstraints(tbl, answer) ==
    /\ answer.delayed_literals = <<>>
    /\ IsTrivialSubstitution(tbl.table_goal, answer.subst)

\* pursue_answer: is_trivial_answer
IsTrivialAnswer(tbl, answer) ==
    /\ answer.delayed_literals = <<>>
    /\ IsTrivialSubstitution(tbl.table_goal, answer.subst)
    /\ answer.constraints = {}

\* pursue_answer with the new answer inserted in front of the older ones
PursueAnswerInFront(tbls, table, strand) ==
    LET answer == StrandAnswer(strand)
    IN  IF IsNewAnswer(tbls[table], answer)
        THEN [tables |-> [tbls EXCEPT ![table].answers = <<answer>> \o @], tag |-> "Ok"]
        ELSE [tables |-> tbls, tag |-> "NoSolution"]

\* pursue_answer without the take_strands of a trivial answer
PursueAnswerWithoutCut(tbls, table, strand) ==
    LET answer == StrandAnswer(strand)
    IN  IF IsNewAnswer(tbls[table], answer)
        THEN [tables |-> [tbls EXCEPT ![table].answers = Append(@, answer)], tag |-> "Ok"]
        ELSE [tables |-> tbls, tag |-> "NoSolution"]

\* pursue_answer applying the green cut to a repeated answer as well
PursueAnswerCutOnDuplicate(tbls, table, strand) ==
    LET answer == StrandAnswer(strand)
        is_trivial_answer == IsTrivialAnswer(tbls[table], answer)
    IN  IF IsNewAnswer(tbls[table], answer)
        THEN LET pushed == [tbls EXCEPT ![table].answers = Append(@, answer)]
             IN  [tables |-> IF is_trivial_answer THEN TakeStrands(pushed, table) ELSE pushed,
                  tag |-> "Ok"]
        ELSE [tables |-> IF is_trivial_answer THEN TakeStrands(tbls, table) ELSE tbls,
              tag |-> "NoSolution"]

\* Forest::pursue_answer: the tables afterwards and the StrandResult
PursueAnswer(tbls, table, strand) ==
    LET answer == StrandAnswer(strand)
        is_trivial_answer == IsTrivialAnswer(tbls[table], answer)
    IN  IF IsNewAnswer(tbls[table], answer)
        THEN LET pushed == [tbls EXCEPT ![table].answers = Append(@, answer)]
             IN  [tables |-> IF is_trivial_answer THEN TakeStrands(pushed, table) ELSE pushed,
                  tag |-> "Ok"]
        ELSE [tables |-> tbls, tag |-> "NoSolution"]

----------------------------------------------------------------------------
(* The walks of cycle() *)

WalkPanic(tbls) == [ok |-> FALSE, tables |-> tbls]

\* clear_strands_after_cycle taking the strands of the tables its strands
\* select, without going on from those tables
RECURSIVE ClearStrandsLoopShallow(_, _)
ClearStrandsLoopShallow(tbls, strands) ==
    IF strands = <<>> THEN [ok |-> TRUE, tables |-> tbls]
    ELSE IF Head(strands).selected_subgoal = NoSelected
         THEN [ok |-> FALSE, tables |-> tbls]
         ELSE ClearStrandsLoopShallow(
                  TakeStrands(tbls, Head(strands).selected_subgoal.subgoal_table),
                  Tail(strands))

\* Forest::clear_strands_after_cycle: [ok, tables]; ok is false when the
\* assertion or the unwrap of the selected subgoal panics
RECURSIVE ClearStrandsAfterCycle(_, _, _)
RECURSIVE ClearStrandsLoop(_, _)
ClearStrandsAfterCycle(tbls, table, strands) ==
    IF tbls[table].strands # <<>> THEN WalkPanic(tbls)
    ELSE ClearStrandsLoop(tbls, strands)

ClearStrandsLoop(tbls, strands) ==
    IF strands = <<>> THEN [ok |-> TRUE, tables |-> tbls]
    ELSE LET selected_subgoal == Head(strands).selected_subgoal
         IN  IF selected_subgoal = NoSelected THEN WalkPanic(tbls)
             ELSE LET strand_table == selected_subgoal.subgoal_table
                      r == ClearStrandsAfterCycle(TakeStrands(tbls, strand_table),
                                                  strand_table, tbls[strand_table].strands)
                  IN  IF r.ok THEN ClearStrandsLoop(r.tables, Tail(strands)) ELSE r

\* delay_strands_after_cycle removing the negative literal without recording
\* the delayed literal
DropNegativeLiteral(strand) ==
    Strand([strand.ex_clause EXCEPT
                !.subgoals = RemoveAt(@, strand.selected_subgoal.subgoal_index)],
           NoSelected)

\* The body of the loop of delay_strands_after_cycle on one strand whose
\* selected literal is negative
DelayNegativeLiteral(strand) ==
    LET sel == strand.selected_subgoal
    IN  Strand([strand.ex_clause EXCEPT
                    !.subgoals = RemoveAt(@, sel.subgoal_index),
                    !.delayed_literals = Append(@, Negative(sel.subgoal_table))],
               NoSelected)

\* The first loop of delay_strands_after_cycle, from strand i on:
\* [ok, tables, visited, found], found being the local vector `tables`
RECURSIVE DelayStrandsLoop(_, _, _, _, _)
DelayStrandsLoop(tbls, table, i, visited, found) ==
    IF i > Len(tbls[table].strands)
    THEN [ok |-> TRUE, tables |-> tbls, visited |-> visited, found |-> found]
    ELSE LET strand == tbls[table].strands[i]
             sel == strand.selected_subgoal
         IN  IF sel = NoSelected \/ sel.subgoal_index > Len(strand.ex_clause.subgoals)
             THEN [ok |-> FALSE, tables |-> tbls, visited |-> visited, found |-> found]
             ELSE LET delayed == IF strand.ex_clause.subgoals[sel.subgoal_index].neg
                                 THEN DelayNegativeLiteral(strand)
                                 ELSE strand
                      fresh == sel.subgoal_table \notin visited
                  IN  DelayStrandsLoop([tbls EXCEPT ![table].strands[i] = delayed],
                                       table, i + 1,
                                       visited \cup {sel.subgoal_table},
                                       IF fresh THEN Append(found, sel.subgoal_table)
                                       ELSE found)

\* delay_strands_after_cycle without the second loop: only the strands of
\* the table itself are looked at
DelayStrandsOwnTable(tbls, table, visited) ==
    LET r == DelayStrandsLoop(tbls, table, 1, visited, <<>>)
    IN  [ok |-> r.ok, tables |-> r.tables, visited |-> r.visited]

\* Forest::delay_strands_after_cycle: [ok, tables, visited]
RECURSIVE DelayStrandsAfterCycle(_, _, _)
RECURSIVE DelayStrandsTables(_, _, _)
DelayStrandsAfterCycle(tbls, table, visited) ==
    LET r == DelayStrandsLoop(tbls, table, 1, visited, <<>>)
    IN  IF r.ok THEN DelayStrandsTables(r.tables, r.found, r.visited)
        ELSE [ok |-> FALSE, tables |-> r.tables, visited |-> r.visited]

DelayStrandsTables(tbls, found, visited) ==
    IF found = <<>> THEN [ok |-> TRUE, tables |-> tbls, visited |-> visited]
    ELSE LET r == DelayStrandsAfterCycle(tbls, Head(found), visited)
         IN  IF r.ok THEN DelayStrandsTables(r.tables, Tail(found), r.visited) ELSE r

\* cycle() without its first case: a purely positive cycle is delayed
CycleCaseWithoutClear(minimums, d) ==
    IF minimums.positive >= d /\ minimums.negative >= d THEN "delay"
    ELSE "propagate"

\* cycle() without its second case: whatever is not cleared is propagated
CycleCaseWithoutDelay(minimums, d) ==
    IF minimums.positive = d /\ minimums.negative = DfnMAX THEN "clear"
    ELSE "propagate"

\* The three cases of cycle()
CycleCase(minimums, d) ==
    IF minimums.positive = d /\ minimums.negative = DfnMAX THEN "clear"
    ELSE IF minimums.positive >= d /\ minimums.negative >= d THEN "delay"
    ELSE "propagate"

----------------------------------------------------------------------------
(* Decisions of ensure_answer_recursively and of the strand scheduler *)

\* ensure_answer_recursively looking only at the requested table's own flag
EnsureDecisionOwnFlag(tbls, stk, table, answer) ==
    IF HasAnswer(tbls[table], answer) THEN "AnswerAvailable"
    ELSE IF NextAnswerIndex(tbls[table]) # answer THEN "AssertFailed"
    ELSE IF IsActive(stk, table) # 0
         THEN IF tbls[table].coinductive_goal THEN "Coinductive" ELSE "Cycle"
    ELSE "Push"

\* ensure_answer_recursively testing the stack before the cache
EnsureDecisionStackFirst(tbls, stk, table, answer) ==
    IF IsActive(stk, table) # 0
    THEN IF TopOfStackIsCoinductiveFrom(tbls, stk, IsActive(stk, table))
         THEN "Coinductive"
         ELSE "Cycle"
    ELSE IF HasAnswer(tbls[table], answer) THEN "AnswerAvailable"
    ELSE IF NextAnswerIndex(tbls[table]) # answer THEN "AssertFailed"
    ELSE "Push"

\* ensure_answer_recursively without the is_active test
EnsureDecisionActiveIgnored(tbls, stk, table, answer) ==
    IF HasAnswer(tbls[table], answer) THEN "AnswerAvailable"
    ELSE IF NextAnswerIndex(tbls[table]) # answer THEN "AssertFailed"
    ELSE "Push"

\* The exits of ensure_answer_recursively before a frame is pushed
EnsureDecision(tbls, stk, table, answer) ==
    IF HasAnswer(tbls[table], answer) THEN "AnswerAvailable"
    ELSE IF NextAnswerIndex(tbls[table]) # answer THEN "AssertFailed"
    ELSE IF IsActive(stk, table) # 0
         THEN IF TopOfStackIsCoinductiveFrom(tbls, stk, IsActive(stk, table))
              THEN "Coinductive"
              ELSE "Cycle"
    ELSE "Push"

\* next_dfn without the increment
DfnNotAdvanced(d) == d

\* Forest::next_dfn: the number handed out, and the counter afterwards
NextDfn(d) == d

DfnAfterNext(d) == d + 1

\* ensure_answer_recursively without the pop
StackNotPopped(stk) == stk

\* The stack after ensure_answer_recursively has run pursue_next_strand
StackAfterPursuit(stk) == StackPop(stk)

\* Table::pop_next_strand: the position of the strand taken
NextStrandIndex(strands, order) ==
    IF order = "lifo" THEN Len(strands) ELSE 1

\* pursue_strand picking the first subgoal
SelectedIndexFirst(subgoals) == 1

\* The subgoal pursue_strand selects: always the last one
SelectedIndex(subgoals) == Len(subgoals)

\* pursue_next_strand taking a failed strand for the end of the table
StrandFailureEndsSearch(tag) ==
    IF tag = "Ok" THEN "AnswerAvailable" ELSE "NoMoreSolutions"

\* pursue_next_strand reporting an answer whatever the strand returned
StrandResultAlwaysAnswer(tag) == "AnswerAvailable"

\* What pursue_next_strand returns for the result of a strand
StrandResultToSearch(tag) ==
    IF tag = "Ok" THEN "AnswerAvailable" ELSE "QuantumExceeded"

\* ensure_root_answer's match on the result of the recursive call
RootResult(tag) ==
    CASE tag = "AnswerAvailable" -> "Ok"
      [] tag = "NoMoreSolutions" -> "NoMoreSolutions"
      [] tag = "QuantumExceeded" -> "QuantumExceeded"
      [] OTHER -> "panic"

----------------------------------------------------------------------------
(* Programs and queries *)

Atom(neg, pred) == Lit(neg, pred, "a")

Fact(pred, arg) == Clause(pred, arg, <<>>, {})

Rule(pred, body) == Clause(pred, "a", body, {})

Prog(name, clauses, coinductive, queries) ==
    [name |-> name, clauses |-> clauses, coinductive |-> coinductive, queries |-> queries]

Ask(pred) == Goal(FALSE, pred, "a")

Catalogue ==
    { Prog("unit", <<Fact("P", "a")>>, {}, {Ask("P")}),
      Prog("vec", <<Clause("S", "a", <<Lit(FALSE, "S", "b")>>, {}), Fact("S", "b")>>, {},
           {Ask("S")}),
      Prog("wf_coinductive", <<Rule("W", <<Atom(FALSE, "W")>>)>>, {"W"}, {Ask("W")}),
      Prog("wf_inductive", <<Rule("W", <<Atom(FALSE, "W")>>)>>, {}, {Ask("W")}),
      Prog("naf", <<Fact("Q", "a")>>, {},
           {Goal(TRUE, "R", "a"), Goal(TRUE, "Q", "a")}),
      Prog("mutual_negation",
           <<Rule("A", <<Atom(TRUE, "B")>>), Rule("B", <<Atom(TRUE, "A")>>)>>, {},
           {Ask("A"), Ask("B")}),
      Prog("flounder", <<Fact("C", "a")>>, {}, {Goal(TRUE, "C", "?")}),
      Prog("multi",
           <<Fact("P", "a"), Fact("P", "b"),
             Clause("R", "X", <<Lit(FALSE, "P", "X")>>, {})>>, {},
           {Goal(FALSE, "P", "?"), Goal(FALSE, "R", "?"), Ask("R")}),
      Prog("truncated",
           <<Fact("P", "a"), Rule("T", <<Lit(FALSE, "P", "big")>>),
             Rule("U", <<Lit(TRUE, "P", "big")>>)>>, {},
           {Ask("T"), Ask("U")}),
      Prog("truncated_general",
           <<Fact("P", "a"), Fact("P", "X"), Rule("T", <<Lit(FALSE, "P", "big")>>)>>, {},
           {Ask("T")}),
      Prog("factor",
           <<Rule("A", <<Atom(TRUE, "B")>>), Rule("B", <<Atom(TRUE, "A")>>),
             Rule("C", <<Atom(FALSE, "A")>>)>>, {},
           {Ask("C")}),
      Prog("constraints",
           <<Clause("P", "a", <<>>, {"r1"}), Clause("P", "a", <<>>, {"r1"}),
             Clause("P", "a", <<>>, {"r2"}), Fact("P", "a"),
             Rule("N", <<Atom(TRUE, "P")>>)>>, {},
           {Ask("P"), Ask("N")}),
      Prog("positive_cycle",
           <<Rule("A", <<Atom(FALSE, "B")>>), Rule("B", <<Atom(FALSE, "A")>>)>>, {},
           {Ask("A")}),
      Prog("positive_cycle_fact",
           <<Rule("A", <<Atom(FALSE, "B")>>), Rule("B", <<Atom(FALSE, "A")>>), Fact("B", "a")>>,
           {}, {Ask("A"), Ask("B")}),
      Prog("mixed_cycle",
           <<Rule("A", <<Atom(FALSE, "B")>>), Rule("B", <<Atom(TRUE, "A")>>)>>, {},
           {Ask("A"), Ask("B")}),
      Prog("cut_constraints",
           <<Clause("T", "a", <<Atom(FALSE, "U")>>, {"r1"}), Fact("T", "a"),
             Rule("U", <<Atom(FALSE, "T")>>)>>, {},
           {Ask("T")}),
      Prog("cut_delayed",
           <<Rule("T", <<Atom(FALSE, "A"), Atom(FALSE, "T")>>), Fact("T", "a"),
             Rule("A", <<Atom(TRUE, "B")>>), Rule("B", <<Atom(TRUE, "A")>>)>>, {},
           {Ask("T")}),
      Prog("coinductive_mixed",
           <<Rule("W", <<Atom(FALSE, "N")>>), Rule("N", <<Atom(FALSE, "W")>>),
             Rule("V", <<Atom(FALSE, "W")>>), Rule("W", <<Atom(FALSE, "V")>>)>>, {"W", "V"},
           {Ask("W"), Ask("N")}),
      Prog("coinductive_negation",
           <<Rule("W", <<Atom(TRUE, "W")>>), Rule("W", <<Atom(FALSE, "V")>>),
             Rule("V", <<Atom(FALSE, "W")>>)>>, {"W", "V"},
           {Ask("W")}),
      Prog("chain",
           <<Rule("A", <<Atom(FALSE, "B")>>), Rule("A", <<Atom(TRUE, "B")>>),
             Rule("B", <<Atom(FALSE, "C")>>)>>, {},
           {Ask("A")}),
      Prog("two_subgoals",
           <<Rule("A", <<Atom(TRUE, "C"), Atom(FALSE, "B")>>),
             Clause("B", "a", <<>>, {"r1"}), Fact("B", "a"),
             Rule("C", <<Atom(TRUE, "A")>>)>>, {},
           {Ask("A"), Ask("C")}),
      Prog("delayed_twice",
           <<Rule("A", <<Atom(TRUE, "B"), Atom(TRUE, "B")>>),
             Rule("A", <<Atom(TRUE, "B")>>),
             Rule("B", <<Atom(TRUE, "A")>>)>>, {},
           {Ask("A")}),
      Prog("stale_minimums",
           <<Rule("A", <<Atom(FALSE, "B"), Atom(TRUE, "A")>>),
             Rule("B", <<Atom(FALSE, "A")>>)>>, {},
           {Ask("A")}),
      Prog("deep_chain",
           <<Rule("A", <<Atom(FALSE, "B")>>), Rule("B", <<Atom(FALSE, "C")>>),
             Rule("C", <<Atom(FALSE, "D")>>)>>, {},
           {Ask("A")}),
      Prog("flounder_first",
           <<Fact("P", "a"), Rule("F", <<Atom(FALSE, "P"), Lit(TRUE, "P", "big")>>)>>, {},
           {Ask("F")}),
      Prog("long_cycle",
           <<Rule("A", <<Atom(FALSE, "B")>>), Rule("B", <<Atom(FALSE, "C")>>),
             Rule("C", <<Atom(FALSE, "A")>>)>>, {},
           {Ask("A")}),
      Prog("stale_propagate",
           <<Rule("A", <<Atom(FALSE, "B")>>),
             Rule("B", <<Atom(FALSE, "A"), Atom(TRUE, "B")>>)>>, {},
           {Ask("A")}) }

\* Every program over the atoms A and B with one or two clauses for A, at
\* most two for B, and at most one literal in each body
GenBodies == {<<>>} \cup {<<Atom(neg, pred)>> : neg \in BOOLEAN, pred \in {"A", "B"}}

GenClauses(pred) ==
    {<<Rule(pred, b)>> : b \in GenBodies}
        \cup {<<Rule(pred, b1), Rule(pred, b2)>> : b1 \in GenBodies, b2 \in GenBodies}

Generated ==
    {Prog("generated", ca \o cb, {}, {Ask("A")}) :
        ca \in GenClauses("A"), cb \in {<<>>} \cup GenClauses("B")}

Programs == Catalogue \cup Generated

----------------------------------------------------------------------------
(* Registers and frames *)

Nil == [tag |-> "nil"]

Call(table, answer, entry) ==
    [tag |-> "call", table |-> table, answer |-> answer, entry |-> entry]

Ret(tag, minimums, call) ==
    [tag |-> tag, minimums |-> minimums, table |-> call.table, answer |-> call.answer,
     entry |-> call.entry]

StrandArg(strand) == [tag |-> "strand", strand |-> strand]

StrandRet(tag, strand, minimums) ==
    [tag |-> tag, strand |-> strand, minimums |-> minimums]

Panic(at) == [tag |-> "panic", at |-> at]

Top == ctl[Len(ctl)]

Pop(s) == SubSeq(s, 1, Len(s) - 1)

ReplaceTop(s, frame) == [s EXCEPT ![Len(s)] = frame]

Init ==
    /\ program \in Programs
    /\ discipline \in {"fifo", "lifo"}
    /\ tables = <<>>
    /\ stack = <<>>
    /\ dfn = 0
    /\ ctl = <<>>
    /\ pc = "idle"
    /\ reg = Nil
    /\ result = "none"

RootFrame(table, answer) == [kind |-> "root", table |-> table, answer |-> answer]

\* The locals of pursue_next_strand; stashed_minimums records, next to each
\* strand of cyclic_strands, the minimums it was stashed with
EnsureFrame(call, depth) ==
    [kind |-> "ensure", table |-> call.table, answer |-> call.answer,
     entry |-> call.entry, depth |-> depth,
     cyclic_strands |-> <<>>, cyclic_minimums |-> MinimumsMAX,
     stashed_minimums |-> <<>>, delay_history |-> {}]

SubgoalFrame(kind, depth, strand) == [kind |-> kind, depth |-> depth, strand |-> strand]

----------------------------------------------------------------------------
(* The driver (forest.rs): creates the table of a query, then asks for its  *)
(* answers one ensure_root_answer at a time                                 *)

GetOrCreateTable(goal) ==
    /\ pc = "idle"
    /\ IndexOf(tables, goal) = 0
    /\ tables' = TablesWithGoal(program, tables, goal)
    /\ UNCHANGED <<program, stack, dfn, ctl, pc, reg, result, discipline>>

\* ensure_root_answer(table, answer), up to the recursive call
EnsureRootAnswer(table, answer) ==
    /\ pc = "idle"
    /\ dfn < MaxDfn
    /\ stack = <<>>
    /\ ctl' = <<RootFrame(table, answer)>>
    /\ pc' = "ensure"
    /\ reg' = Call(table, answer, stack)
    /\ result' = "running"
    /\ UNCHANGED <<program, tables, stack, dfn, discipline>>

\* ensure_root_answer, the match on the result of the recursive call
RootReturn ==
    /\ pc = "ret_ensure"
    /\ Top.kind = "root"
    /\ result' = RootResult(reg.tag)
    /\ pc' = IF RootResult(reg.tag) = "panic" THEN "panic" ELSE "idle"
    /\ ctl' = <<>>
    /\ reg' = Nil
    /\ UNCHANGED <<program, tables, stack, dfn, discipline>>

----------------------------------------------------------------------------
(* ensure_answer_recursively *)

\* The early returns with the two components of the Cycle minimums swapped
EnsureReturnsSwapped(tag) ==
    /\ pc' = "ret_ensure"
    /\ reg' = Ret(tag,
                  IF tag = "Cycle"
                  THEN Minimums(DfnMAX, stack[IsActive(stack, reg.table)].dfn)
                  ELSE MinimumsMAX,
                  reg)
    /\ UNCHANGED <<program, tables, stack, dfn, ctl, result, discipline>>

EnsureReturns(tag) ==
    /\ pc' = "ret_ensure"
    /\ reg' = Ret(tag,
                  IF tag = "Cycle"
                  THEN Minimums(stack[IsActive(stack, reg.table)].dfn, DfnMAX)
                  ELSE MinimumsMAX,
                  reg)
    /\ UNCHANGED <<program, tables, stack, dfn, ctl, result, discipline>>

\* The answer is cached; a request that is neither cached nor the next one
\* fails the assert_eq of the source
EnsureAnswerAvailable ==
    /\ pc = "ensure"
    /\ EnsureDecision(tables, stack, reg.table, reg.answer)
           \in {"AnswerAvailable", "AssertFailed"}
    /\ IF EnsureDecision(tables, stack, reg.table, reg.answer) = "AssertFailed"
       THEN /\ pc' = "panic"
            /\ reg' = Panic("assert_eq!(next_answer_index, answer)")
            /\ UNCHANGED <<program, tables, stack, dfn, ctl, result, discipline>>
       ELSE EnsureReturns("AnswerAvailable")

EnsureCoinductive ==
    /\ pc = "ensure"
    /\ EnsureDecision(tables, stack, reg.table, reg.answer) = "Coinductive"
    /\ EnsureReturns("Coinductive")

EnsureCycle ==
    /\ pc = "ensure"
    /\ EnsureDecision(tables, stack, reg.table, reg.answer) = "Cycle"
    /\ EnsureReturns("Cycle")

EnsurePush ==
    /\ pc = "ensure"
    /\ EnsureDecision(tables, stack, reg.table, reg.answer) = "Push"
    /\ dfn' = DfnAfterNext(dfn)
    /\ stack' = StackPush(stack, reg.table, NextDfn(dfn))
    /\ ctl' = Append(ctl, EnsureFrame(reg, Len(stack) + 1))
    /\ pc' = "next"
    /\ reg' = Nil
    /\ UNCHANGED <<program, tables, result, discipline>>

\* The tail of ensure_answer_recursively: pop the frame and return
ReturnFromEnsure(tbls, tag, minimums) ==
    /\ tables' = tbls
    /\ stack' = StackAfterPursuit(stack)
    /\ ctl' = Pop(ctl)
    /\ pc' = "ret_ensure"
    /\ reg' = Ret(tag, minimums, Top)
    /\ UNCHANGED <<program, dfn, result, discipline>>

----------------------------------------------------------------------------
(* pursue_next_strand and cycle *)

PopNextStrand ==
    /\ pc = "next"
    /\ tables[Top.table].strands # <<>>
    /\ LET i == NextStrandIndex(tables[Top.table].strands, discipline)
       IN  /\ reg' = StrandArg(tables[Top.table].strands[i])
           /\ tables' = [tables EXCEPT ![Top.table].strands = RemoveAt(@, i)]
    /\ pc' = "strand"
    /\ UNCHANGED <<program, stack, dfn, ctl, result, discipline>>

\* pursue_next_strand giving up the quantum when the table has run dry
NoMoreStrandsQuantumExceeded ==
    /\ pc = "next"
    /\ tables[Top.table].strands = <<>>
    /\ Top.cyclic_strands = <<>>
    /\ ReturnFromEnsure(tables, "QuantumExceeded", MinimumsMAX)

NoMoreStrands ==
    /\ pc = "next"
    /\ tables[Top.table].strands = <<>>
    /\ Top.cyclic_strands = <<>>
    /\ ReturnFromEnsure(tables, "NoMoreSolutions", MinimumsMAX)

\* cycle() with its three branches not excluding one another
AtCycleAnyCase(case) ==
    /\ pc = "next"
    /\ tables[Top.table].strands = <<>>
    /\ Top.cyclic_strands # <<>>

AtCycle(case) ==
    /\ pc = "next"
    /\ tables[Top.table].strands = <<>>
    /\ Top.cyclic_strands # <<>>
    /\ CycleCase(Top.cyclic_minimums, stack[Top.depth].dfn) = case

PanicAt(at) ==
    /\ pc' = "panic"
    /\ reg' = Panic(at)
    /\ UNCHANGED <<program, tables, stack, dfn, ctl, result, discipline>>

CycleClear ==
    /\ AtCycle("clear")
    /\ LET r == ClearStrandsAfterCycle(tables, Top.table, Top.cyclic_strands)
       IN  IF r.ok
           THEN ReturnFromEnsure(r.tables, "NoMoreSolutions", MinimumsMAX)
           ELSE PanicAt("clear_strands_after_cycle")

\* cycle(), the delay case: it returns None and pursue_next_strand loops.
\* The loop is deterministic and compares DFNs only with each other, so when
\* a round leaves the tables and the minimums as an earlier round of the same
\* call left them, it repeats that round for ever: the frame records the
\* rounds (delay_history) and pc = "diverged" stands for the call that never
\* returns.
CycleDelay ==
    /\ AtCycle("delay")
    /\ \E r \in {DelayStrandsAfterCycle(
                     ExtendStrands(tables, Top.table, Top.cyclic_strands),
                     Top.table, {Top.table})} :
           IF r.ok
           THEN /\ tables' = r.tables
                /\ ctl' = ReplaceTop(ctl,
                       [Top EXCEPT !.cyclic_strands = <<>>,
                                   !.stashed_minimums = <<>>,
                                   !.delay_history =
                                       @ \cup {<<r.tables, Top.cyclic_minimums>>}])
                /\ pc' = IF <<r.tables, Top.cyclic_minimums>> \in Top.delay_history
                         THEN "diverged"
                         ELSE "next"
                /\ UNCHANGED <<program, stack, dfn, reg, result, discipline>>
           ELSE PanicAt("delay_strands_after_cycle")

CyclePropagate ==
    /\ AtCycle("propagate")
    /\ ReturnFromEnsure(ExtendStrands(tables, Top.table, Top.cyclic_strands),
                        "Cycle", Top.cyclic_minimums)

\* The strand produced an answer: the cyclic strands are to be retried
StrandOk ==
    /\ pc = "ret_strand"
    /\ reg.tag = "Ok"
    /\ ReturnFromEnsure(ExtendStrands(tables, Top.table, Top.cyclic_strands),
                        StrandResultToSearch(reg.tag), MinimumsMAX)

\* The strand failed or ran out of quantum
\* The failure arm of pursue_next_strand without the extend_strands
StrandFailedStashDropped ==
    /\ pc = "ret_strand"
    /\ reg.tag \in {"NoSolution", "QuantumExceeded"}
    /\ ReturnFromEnsure(tables, StrandResultToSearch(reg.tag), MinimumsMAX)

StrandFailed ==
    /\ pc = "ret_strand"
    /\ reg.tag \in {"NoSolution", "QuantumExceeded"}
    /\ ReturnFromEnsure(ExtendStrands(tables, Top.table, Top.cyclic_strands),
                        StrandResultToSearch(reg.tag), MinimumsMAX)

\* The strand hit a cycle: stash it and try the next one
StrandCycle ==
    /\ pc = "ret_strand"
    /\ reg.tag = "Cycle"
    /\ ctl' = ReplaceTop(ctl,
                [Top EXCEPT !.cyclic_strands = Append(@, reg.strand),
                            !.cyclic_minimums = TakeMinimums(@, reg.minimums),
                            !.stashed_minimums = Append(@, reg.minimums)])
    /\ pc' = "next"
    /\ reg' = Nil
    /\ UNCHANGED <<program, tables, stack, dfn, result, discipline>>

----------------------------------------------------------------------------
(* pursue_strand *)

StrandReturn(tbls, tag, strand, minimums) ==
    /\ tables' = tbls
    /\ pc' = "ret_strand"
    /\ reg' = StrandRet(tag, strand, minimums)

PursueAnswerStep ==
    /\ pc = "strand"
    /\ reg.strand.selected_subgoal = NoSelected
    /\ reg.strand.ex_clause.subgoals = <<>>
    /\ LET r == PursueAnswer(tables, Top.table, reg.strand)
       IN  StrandReturn(r.tables, r.tag, reg.strand, MinimumsMAX)
    /\ UNCHANGED <<program, stack, dfn, ctl, result, discipline>>

\* One turn of the while loop of pursue_strand
AtSelection(some) ==
    /\ pc = "strand"
    /\ reg.strand.selected_subgoal = NoSelected
    /\ reg.strand.ex_clause.subgoals # <<>>
    /\ LET subgoals == reg.strand.ex_clause.subgoals
       IN  SubgoalGoal(subgoals[SelectedIndex(subgoals)]).some = some

SelectSubgoal ==
    /\ AtSelection(TRUE)
    /\ LET subgoals == reg.strand.ex_clause.subgoals
           subgoal_index == SelectedIndex(subgoals)
           goal == SubgoalGoal(subgoals[subgoal_index]).goal
           tbls == TablesWithGoal(program, tables, goal)
       IN  /\ tables' = tbls
           /\ reg' = StrandArg([reg.strand EXCEPT !.selected_subgoal =
                         [subgoal_index |-> subgoal_index,
                          subgoal_table |-> IndexOf(tbls, goal),
                          answer_index |-> AnswerIndexZERO]])
    /\ UNCHANGED <<program, stack, dfn, ctl, pc, result, discipline>>

\* The None arm removing the subgoal without recording CannotProve
FlounderUnrecorded ==
    /\ AtSelection(FALSE)
    /\ LET subgoals == reg.strand.ex_clause.subgoals
           subgoal_index == SelectedIndex(subgoals)
       IN  reg' = StrandArg([reg.strand EXCEPT
                       !.ex_clause.subgoals = RemoveAt(@, subgoal_index)])
    /\ UNCHANGED <<program, tables, stack, dfn, ctl, pc, result, discipline>>

Flounder ==
    /\ AtSelection(FALSE)
    /\ LET subgoals == reg.strand.ex_clause.subgoals
           subgoal_index == SelectedIndex(subgoals)
       IN  reg' = StrandArg([reg.strand EXCEPT
                       !.ex_clause.subgoals = RemoveAt(@, subgoal_index),
                       !.ex_clause.delayed_literals = Append(@, CannotProve)])
    /\ UNCHANGED <<program, tables, stack, dfn, ctl, pc, result, discipline>>

\* The match at the end of pursue_strand, and the recursive request that
\* opens pursue_positive_subgoal and pursue_negative_subgoal
SelectedLiteral(strand) == strand.ex_clause.subgoals[strand.selected_subgoal.subgoal_index]

AtDispatch(negative) ==
    /\ pc = "strand"
    /\ reg.strand.selected_subgoal # NoSelected
    /\ SelectedLiteral(reg.strand).neg = negative

RequestSubgoal(negative) ==
    /\ ctl' = Append(ctl, SubgoalFrame(IF negative THEN "negative" ELSE "positive",
                                       Top.depth, reg.strand))
    /\ pc' = "ensure"
    /\ reg' = Call(reg.strand.selected_subgoal.subgoal_table,
                   reg.strand.selected_subgoal.answer_index, stack)
    /\ UNCHANGED <<program, tables, stack, dfn, result, discipline>>

PursuePositiveSubgoal ==
    /\ AtDispatch(FALSE)
    /\ RequestSubgoal(FALSE)

PursueNegativeSubgoal ==
    /\ AtDispatch(TRUE)
    /\ RequestSubgoal(TRUE)

----------------------------------------------------------------------------
(* pursue_positive_subgoal, after the recursive request *)

AtSubgoalReturn(kind, tag) ==
    /\ pc = "ret_ensure"
    /\ Top.kind = kind
    /\ reg.tag = tag

\* The table the strand belongs to: the one at `depth`
TableAt(depth) == stack[depth].table

\* pursue_strand_recursively on the strand, with no selected subgoal
ContinueStrand(tbls, ex_clause) ==
    /\ tables' = tbls
    /\ pc' = "strand"
    /\ reg' = StrandArg(Strand(ex_clause, NoSelected))

\* push_strand_pursuing_next_answer passing over one answer
NextAnswerStrandSkipping(strand) ==
    [strand EXCEPT !.selected_subgoal.answer_index = @ + 2]

\* Forest::push_strand_pursuing_next_answer
NextAnswerStrand(strand) ==
    [strand EXCEPT !.selected_subgoal.answer_index = @ + 1]

\* The resolvent without the Factor rule
FactorLeftOut(ex_clause, subgoal_table, answer) == ex_clause

\* The ex-clause after apply_answer_subst succeeded: the Factor rule
Factor(ex_clause, subgoal_table, answer) ==
    IF answer.delayed_literals # <<>>
    THEN [ex_clause EXCEPT !.delayed_literals =
              Append(@, Positive(subgoal_table, answer.subst, answer.constraints))]
    ELSE ex_clause

PositiveUnifies ==
    LET strand == Top.strand
        sel == strand.selected_subgoal
    IN  ApplyAnswerSubst([strand.ex_clause EXCEPT !.subgoals = RemoveAt(@, sel.subgoal_index)],
                         strand.ex_clause.subgoals[sel.subgoal_index],
                         tables[sel.subgoal_table].table_goal,
                         AnswerAt(tables[sel.subgoal_table], sel.answer_index)).sat

\* The AnswerAvailable arm enqueuing the sibling only when the answer unifies
PositiveAnswerSiblingOnSuccess(sat) ==
    /\ LET strand == Top.strand
           sel == strand.selected_subgoal
           table == TableAt(Top.depth)
           pushed == PushStrand(tables, table, NextAnswerStrand(strand))
           subgoal == strand.ex_clause.subgoals[sel.subgoal_index]
           ex_clause == [strand.ex_clause EXCEPT !.subgoals = RemoveAt(@, sel.subgoal_index)]
           answer == AnswerAt(tables[sel.subgoal_table], sel.answer_index)
           r == ApplyAnswerSubst(ex_clause, subgoal,
                                 tables[sel.subgoal_table].table_goal, answer)
       IN  /\ r.sat = sat
           /\ IF sat
              THEN ContinueStrand(pushed,
                       TruncateReturned(Factor(r.ex_clause, sel.subgoal_table, answer)))
              ELSE StrandReturn(tables, "NoSolution", strand, MinimumsMAX)
    /\ ctl' = Pop(ctl)
    /\ UNCHANGED <<program, stack, dfn, result, discipline>>

PositiveAnswer(sat) ==
    /\ LET strand == Top.strand
           sel == strand.selected_subgoal
           table == TableAt(Top.depth)
           pushed == PushStrand(tables, table, NextAnswerStrand(strand))
           subgoal == strand.ex_clause.subgoals[sel.subgoal_index]
           ex_clause == [strand.ex_clause EXCEPT !.subgoals = RemoveAt(@, sel.subgoal_index)]
           answer == AnswerAt(tables[sel.subgoal_table], sel.answer_index)
           r == ApplyAnswerSubst(ex_clause, subgoal,
                                 tables[sel.subgoal_table].table_goal, answer)
       IN  /\ r.sat = sat
           /\ IF sat
              THEN ContinueStrand(pushed,
                       TruncateReturned(Factor(r.ex_clause, sel.subgoal_table, answer)))
              ELSE StrandReturn(pushed, "NoSolution", strand, MinimumsMAX)
    /\ ctl' = Pop(ctl)
    /\ UNCHANGED <<program, stack, dfn, result, discipline>>

PositiveResolved ==
    /\ AtSubgoalReturn("positive", "AnswerAvailable")
    /\ PositiveUnifies
    /\ PositiveAnswer(TRUE)

PositiveNotUnifiable ==
    /\ AtSubgoalReturn("positive", "AnswerAvailable")
    /\ ~PositiveUnifies
    /\ PositiveAnswer(FALSE)

CoinductiveAssertHolds ==
    /\ tables[TableAt(Top.depth)].coinductive_goal
    /\ tables[Top.strand.selected_subgoal.subgoal_table].coinductive_goal

\* The Coinductive arm going on with the subgoal still in the ex-clause
PositiveCoinductiveSubgoalKept ==
    /\ AtSubgoalReturn("positive", "Coinductive")
    /\ ContinueStrand(tables, Top.strand.ex_clause)
    /\ ctl' = Pop(ctl)
    /\ UNCHANGED <<program, stack, dfn, result, discipline>>

PositiveCoinductive ==
    /\ AtSubgoalReturn("positive", "Coinductive")
    /\ IF CoinductiveAssertHolds
       THEN /\ ContinueStrand(tables,
                   [Top.strand.ex_clause EXCEPT
                       !.subgoals = RemoveAt(@, Top.strand.selected_subgoal.subgoal_index)])
            /\ ctl' = Pop(ctl)
            /\ UNCHANGED <<program, stack, dfn, result, discipline>>
       ELSE PanicAt("assert!(coinductive_goal)")

PositiveNoMoreSolutions ==
    /\ AtSubgoalReturn("positive", "NoMoreSolutions")
    /\ StrandReturn(tables, "NoSolution", Top.strand, MinimumsMAX)
    /\ ctl' = Pop(ctl)
    /\ UNCHANGED <<program, stack, dfn, result, discipline>>

\* The QuantumExceeded arm without the push_strand
PositiveQuantumExceededStrandDropped ==
    /\ AtSubgoalReturn("positive", "QuantumExceeded")
    /\ StrandReturn(tables, "QuantumExceeded", Top.strand, MinimumsMAX)
    /\ ctl' = Pop(ctl)
    /\ UNCHANGED <<program, stack, dfn, result, discipline>>

PositiveQuantumExceeded ==
    /\ AtSubgoalReturn("positive", "QuantumExceeded")
    /\ StrandReturn(PushStrand(tables, TableAt(Top.depth), Top.strand),
                    "QuantumExceeded", Top.strand, MinimumsMAX)
    /\ ctl' = Pop(ctl)
    /\ UNCHANGED <<program, stack, dfn, result, discipline>>

\* The Cycle arm handing the strand back without its selected subgoal
PositiveCycleSelectionLost ==
    /\ AtSubgoalReturn("positive", "Cycle")
    /\ StrandReturn(tables, "Cycle", [Top.strand EXCEPT !.selected_subgoal = NoSelected],
                    reg.minimums)
    /\ ctl' = Pop(ctl)
    /\ UNCHANGED <<program, stack, dfn, result, discipline>>

PositiveCycle ==
    /\ AtSubgoalReturn("positive", "Cycle")
    /\ StrandReturn(tables, "Cycle", Top.strand, reg.minimums)
    /\ ctl' = Pop(ctl)
    /\ UNCHANGED <<program, stack, dfn, result, discipline>>

----------------------------------------------------------------------------
(* pursue_negative_subgoal, after the recursive request *)

\* Remove the negative literal, add the delayed literal if any, go on
NegativeContinue(delayed_literal) ==
    /\ ContinueStrand(tables,
           [Top.strand.ex_clause EXCEPT
               !.subgoals = RemoveAt(@, Top.strand.selected_subgoal.subgoal_index),
               !.delayed_literals = @ \o delayed_literal])
    /\ ctl' = Pop(ctl)
    /\ UNCHANGED <<program, stack, dfn, result, discipline>>

NegativeAnswer ==
    AnswerAt(tables[Top.strand.selected_subgoal.subgoal_table],
             Top.strand.selected_subgoal.answer_index)

\* The AnswerAvailable arm delaying the literal on an unconditional answer too
NegativeRefutedDelayed ==
    /\ AtSubgoalReturn("negative", "AnswerAvailable")
    /\ IsUnconditional(NegativeAnswer)
    /\ NegativeContinue(<<Negative(Top.strand.selected_subgoal.subgoal_table)>>)

NegativeRefuted ==
    /\ AtSubgoalReturn("negative", "AnswerAvailable")
    /\ IsUnconditional(NegativeAnswer)
    /\ StrandReturn(tables, "NoSolution", Top.strand, MinimumsMAX)
    /\ ctl' = Pop(ctl)
    /\ UNCHANGED <<program, stack, dfn, result, discipline>>

\* The AnswerAvailable arm going on from a conditional answer without
\* recording the delayed literal
NegativeDelayedUnrecorded ==
    /\ AtSubgoalReturn("negative", "AnswerAvailable")
    /\ ~IsUnconditional(NegativeAnswer)
    /\ NegativeContinue(<<>>)

NegativeDelayed ==
    /\ AtSubgoalReturn("negative", "AnswerAvailable")
    /\ ~IsUnconditional(NegativeAnswer)
    /\ NegativeContinue(<<Negative(Top.strand.selected_subgoal.subgoal_table)>>)

NegativeCoinductive ==
    /\ AtSubgoalReturn("negative", "Coinductive")
    /\ StrandReturn(tables, "NoSolution", Top.strand, MinimumsMAX)
    /\ ctl' = Pop(ctl)
    /\ UNCHANGED <<program, stack, dfn, result, discipline>>

\* The Cycle arm of a negative literal passing the minimums on as the
\* positive arm does
NegativeCycleMinimumsPassedOn(d, minimums) == minimums

\* The minimums a strand reports for a cycle through a negative literal
NegativeCycleMinimums(d, minimums) == Minimums(d, MinimumOfPosAndNeg(minimums))

NegativeCycle ==
    /\ AtSubgoalReturn("negative", "Cycle")
    /\ StrandReturn(tables, "Cycle", Top.strand,
                    NegativeCycleMinimums(stack[Top.depth].dfn, reg.minimums))
    /\ ctl' = Pop(ctl)
    /\ UNCHANGED <<program, stack, dfn, result, discipline>>

\* The NoMoreSolutions arm keeping the literal as a delayed one
NegativeNoMoreSolutionsDelayed ==
    /\ AtSubgoalReturn("negative", "NoMoreSolutions")
    /\ NegativeContinue(<<Negative(Top.strand.selected_subgoal.subgoal_table)>>)

NegativeNoMoreSolutions ==
    /\ AtSubgoalReturn("negative", "NoMoreSolutions")
    /\ NegativeContinue(<<>>)

NegativeQuantumExceeded ==
    /\ AtSubgoalReturn("negative", "QuantumExceeded")
    /\ StrandReturn(PushStrand(tables, TableAt(Top.depth), Top.strand),
                    "QuantumExceeded", Top.strand, MinimumsMAX)
    /\ ctl' = Pop(ctl)
    /\ UNCHANGED <<program, stack, dfn, result, discipline>>

----------------------------------------------------------------------------
(* The specification *)

Driver ==
    \/ \E goal \in program.queries : GetOrCreateTable(goal)
    \/ \E table \in 1..Len(tables) :
           \E answer \in 0..NextAnswerIndex(tables[table]) :
               EnsureRootAnswer(table, answer)

Evaluator ==
    \/ RootReturn
    \/ EnsureAnswerAvailable
    \/ EnsureCoinductive
    \/ EnsureCycle
    \/ EnsurePush
    \/ PopNextStrand
    \/ NoMoreStrands
    \/ CycleClear
    \/ CycleDelay
    \/ CyclePropagate
    \/ StrandOk
    \/ StrandFailed
    \/ StrandCycle
    \/ PursueAnswerStep
    \/ SelectSubgoal
    \/ Flounder
    \/ PursuePositiveSubgoal
    \/ PursueNegativeSubgoal
    \/ PositiveResolved
    \/ PositiveNotUnifiable
    \/ PositiveCoinductive
    \/ PositiveNoMoreSolutions
    \/ PositiveQuantumExceeded
    \/ PositiveCycle
    \/ NegativeRefuted
    \/ NegativeDelayed
    \/ NegativeCoinductive
    \/ NegativeCycle
    \/ NegativeNoMoreSolutions
    \/ NegativeQuantumExceeded

Next == Driver \/ Evaluator

Spec == Init /\ [][Next]_vars

----------------------------------------------------------------------------
(* Properties *)

\* C1: whenever ensure_answer_recursively returns AnswerAvailable, and
\* whenever ensure_root_answer returns Ok, the table holds an answer at the
\* index that was asked for.
C1_OkMeansAnswerPresent ==
    [][/\ (pc' = "ret_ensure" /\ reg'.tag = "AnswerAvailable")
              => reg'.answer < Len(tables'[reg'.table].answers)
       /\ (pc = "ret_ensure" /\ Top.kind = "root" /\ result' = "Ok")
              => Top.answer < Len(tables'[Top.table].answers)]_vars

\* A root call has returned Ok for an answer it had to compute
C1_Witness ==
    /\ pc = "idle"
    /\ result = "Ok"
    /\ dfn > 0
    /\ \E t \in 1..Len(tables) : tables[t].answers # <<>>

\* C2: no step removes a table, shortens the answers of a table or changes
\* an answer that is stored: the old answers stay a prefix of the new ones.
C2_AnswersOnlyAppended ==
    [][/\ Len(tables') >= Len(tables)
       /\ \A t \in 1..Len(tables) :
              /\ Len(tables'[t].answers) >= Len(tables[t].answers)
              /\ SubSeq(tables'[t].answers, 1, Len(tables[t].answers))
                     = tables[t].answers]_vars

\* A table got a second answer in a later root call
C2_Witness ==
    /\ pc = "idle"
    /\ result = "Ok"
    /\ \E t \in 1..Len(tables) : Len(tables[t].answers) >= 2

\* Two answers equal in substitution (with its constraints) and in the set
\* of their delayed literals
SameAnswer(a, b) ==
    /\ a.subst = b.subst
    /\ a.constraints = b.constraints
    /\ Range(a.delayed_literals) = Range(b.delayed_literals)

\* C3: no table holds two equal answers.
C3_AnswersUnique ==
    \A t \in 1..Len(tables) :
        \A i, j \in 1..Len(tables[t].answers) :
            i # j => ~SameAnswer(tables[t].answers[i], tables[t].answers[j])

\* A strand has derived an answer its table already holds, and was refused
C3_Witness ==
    /\ pc = "ret_strand"
    /\ reg.tag = "NoSolution"
    /\ reg.strand.selected_subgoal = NoSelected
    /\ reg.strand.ex_clause.subgoals = <<>>
    /\ \E i \in 1..Len(tables[Top.table].answers) :
           SameAnswer(tables[Top.table].answers[i], StrandAnswer(reg.strand))

\* C4: the stack is empty whenever ensure_root_answer has returned, every
\* ensure_answer_recursively returns with the stack it was called with, and
\* while a call runs its frame is the one of its table at its depth.
C4_StackDiscipline ==
    /\ pc = "idle" => stack = <<>>
    /\ pc = "ret_ensure" => stack = reg.entry
    /\ (pc = "ret_ensure" /\ Top.kind = "root") => stack = <<>>
    /\ \A i \in 1..Len(ctl) :
           ctl[i].kind = "ensure" =>
               /\ ctl[i].depth <= Len(stack)
               /\ stack[ctl[i].depth].table = ctl[i].table
               /\ SubSeq(stack, 1, ctl[i].depth - 1) = ctl[i].entry

\* A nested call that pushed a frame has returned to a caller with frames of
\* its own
C4_Witness ==
    /\ pc = "ret_ensure"
    /\ reg.tag \in {"NoMoreSolutions", "QuantumExceeded", "Cycle"}
    /\ Len(stack) >= 1
    /\ dfn > stack[Len(stack)].dfn + 1

\* The DFNs of a stack increase from bottom to top, are below the counter
\* and differ from the sentinel
DfnsOrdered(stk, counter) ==
    \A i \in 1..Len(stk) :
        /\ stk[i].dfn < counter
        /\ stk[i].dfn # DfnMAX
        /\ \A j \in (i + 1)..Len(stk) : stk[i].dfn < stk[j].dfn

\* C5: the counter never goes back, a pushed frame gets a DFN no earlier
\* frame was given (at least the counter before the push, which is above
\* every DFN handed out so far), and the DFNs of the stack are ordered.
C5_DfnsIncrease ==
    [][/\ dfn' >= dfn
       /\ DfnsOrdered(stack, dfn) /\ DfnsOrdered(stack', dfn')
       /\ Len(stack') > Len(stack) => stack'[Len(stack')].dfn >= dfn]_vars

\* Two frames on the stack, the upper one pushed after an earlier frame had
\* been popped
C5_Witness ==
    /\ Len(stack) >= 2
    /\ stack[2].dfn > stack[1].dfn + 1

\* C6: ensure_answer_recursively returns Coinductive only for a table on the
\* stack with coinductive frames from there to the top, and returns Cycle
\* when the table is on the stack below a frame that is not coinductive.
C6_CoinductiveOnlyThroughCoinductiveFrames ==
    [][(pc = "ensure" /\ pc' = "ret_ensure") =>
          /\ reg'.tag = "Coinductive" =>
                 \E d \in 1..Len(stack) :
                     /\ stack[d].table = reg.table
                     /\ \A e \in d..Len(stack) : tables[stack[e].table].coinductive_goal
          /\ (/\ reg.answer >= Len(tables[reg.table].answers)
              /\ \E d \in 1..Len(stack) :
                     /\ stack[d].table = reg.table
                     /\ \E e \in d..Len(stack) : ~tables[stack[e].table].coinductive_goal)
                 => reg'.tag = "Cycle"]_vars

\* A coinductive table was requested again through a second frame and the
\* request returned Coinductive
C6_Witness ==
    /\ pc = "ret_ensure"
    /\ reg.tag = "Coinductive"
    /\ Len(stack) >= 2
    /\ stack[Len(stack)].table # reg.table

\* A table holds a trivial answer
HasTrivialAnswer(tbl) ==
    \E i \in 1..Len(tbl.answers) : IsTrivialAnswer(tbl, tbl.answers[i])

\* C7: a table that holds a trivial answer gets no further answer.
C7_NoAnswerAfterTrivial ==
    [][\A t \in 1..Len(tables) :
           HasTrivialAnswer(tables[t]) => tables'[t].answers = tables[t].answers]_vars

\* C8: the loop of pursue_next_strand does not run forever: a round that
\* ends with cycle() returning None never leaves the tables and the minimums
\* as an earlier round of the same call left them (the rounds are
\* deterministic, so such a round repeats without end).
C8_LoopNeverRepeats ==
    [][AtCycle("delay") =>
           <<tables', Top.cyclic_minimums>> \notin Top.delay_history]_vars

\* C9: a request for an answer the table holds returns AnswerAvailable, Ok at
\* the root, and the requesting, the lookup and the return leave tables,
\* stack and DFN counter as they are.
C9_CachedRequestChangesNothing ==
    [][/\ (pc = "idle" /\ pc' = "ensure") => UNCHANGED <<tables, stack, dfn>>
       /\ (pc = "ensure" /\ reg.answer < Len(tables[reg.table].answers))
              => /\ pc' = "ret_ensure"
                 /\ reg'.tag = "AnswerAvailable"
                 /\ UNCHANGED <<tables, stack, dfn, ctl>>
       /\ (pc = "ret_ensure" /\ Top.kind = "root" /\ reg.tag = "AnswerAvailable")
              => /\ result' = "Ok"
                 /\ pc' = "idle"
                 /\ UNCHANGED <<tables, stack, dfn>>]_vars

\* A root request for an answer that is not the last of its table has been
\* looked up
C9_Witness ==
    /\ pc = "ret_ensure"
    /\ Top.kind = "root"
    /\ reg.tag = "AnswerAvailable"
    /\ Len(tables[reg.table].answers) > reg.answer + 1

\* The steps of the evaluator that can be taken in the current state
EnabledSteps ==
    {name \in {"RootReturn", "EnsureAnswerAvailable", "EnsureCoinductive",
             "EnsureCycle", "EnsurePush", "PopNextStrand",
             "NoMoreStrands", "CycleClear", "CycleDelay",
             "CyclePropagate", "StrandOk", "StrandFailed",
             "StrandCycle", "PursueAnswerStep", "SelectSubgoal",
             "Flounder", "PursuePositiveSubgoal", "PursueNegativeSubgoal",
             "PositiveResolved", "PositiveNotUnifiable", "PositiveCoinductive",
             "PositiveNoMoreSolutions", "PositiveQuantumExceeded", "PositiveCycle",
             "NegativeRefuted", "NegativeDelayed", "NegativeCoinductive",
             "NegativeCycle", "NegativeNoMoreSolutions", "NegativeQuantumExceeded"} :
        CASE name = "RootReturn" -> ENABLED RootReturn
          [] name = "EnsureAnswerAvailable" -> ENABLED EnsureAnswerAvailable
          [] name = "EnsureCoinductive" -> ENABLED EnsureCoinductive
          [] name = "EnsureCycle" -> ENABLED EnsureCycle
          [] name = "EnsurePush" -> ENABLED EnsurePush
          [] name = "PopNextStrand" -> ENABLED PopNextStrand
          [] name = "NoMoreStrands" -> ENABLED NoMoreStrands
          [] name = "CycleClear" -> ENABLED CycleClear
          [] name = "CycleDelay" -> ENABLED CycleDelay
          [] name = "CyclePropagate" -> ENABLED CyclePropagate
          [] name = "StrandOk" -> ENABLED StrandOk
          [] name = "StrandFailed" -> ENABLED StrandFailed
          [] name = "StrandCycle" -> ENABLED StrandCycle
          [] name = "PursueAnswerStep" -> ENABLED PursueAnswerStep
          [] name = "SelectSubgoal" -> ENABLED SelectSubgoal
          [] name = "Flounder" -> ENABLED Flounder
          [] name = "PursuePositiveSubgoal" -> ENABLED PursuePositiveSubgoal
          [] name = "PursueNegativeSubgoal" -> ENABLED PursueNegativeSubgoal
          [] name = "PositiveResolved" -> ENABLED PositiveResolved
          [] name = "PositiveNotUnifiable" -> ENABLED PositiveNotUnifiable
          [] name = "PositiveCoinductive" -> ENABLED PositiveCoinductive
          [] name = "PositiveNoMoreSolutions" -> ENABLED PositiveNoMoreSolutions
          [] name = "PositiveQuantumExceeded" -> ENABLED PositiveQuantumExceeded
          [] name = "PositiveCycle" -> ENABLED PositiveCycle
          [] name = "NegativeRefuted" -> ENABLED NegativeRefuted
          [] name = "NegativeDelayed" -> ENABLED NegativeDelayed
          [] name = "NegativeCoinductive" -> ENABLED NegativeCoinductive
          [] name = "NegativeCycle" -> ENABLED NegativeCycle
          [] name = "NegativeNoMoreSolutions" -> ENABLED NegativeNoMoreSolutions
          [] name = "NegativeQuantumExceeded" -> ENABLED NegativeQuantumExceeded}

TableIds == 1..4

AnswerIds == 0..3

\* ensure_root_answer(t, a) is about to return
RootReturns(t, a) ==
    /\ pc = "ret_ensure"
    /\ Top.kind = "root"
    /\ Top.table = t
    /\ Top.answer = a

\* C11: once ensure_root_answer(t, a) returns NoMoreSolutions, table t never
\* holds an answer at index a and every later ensure_root_answer(t, a)
\* returns NoMoreSolutions.
C11_NoMoreSolutionsIsTerminal ==
    /\ [](/\ Len(tables) \in {0} \cup TableIds
          /\ \A t \in 1..Len(tables) : Len(tables[t].answers) \in AnswerIds)
    /\ \A t \in TableIds : \A a \in AnswerIds :
           [](RootReturns(t, a) /\ reg.tag = "NoMoreSolutions"
                 => [](/\ t <= Len(tables) => Len(tables[t].answers) <= a
                       /\ RootReturns(t, a) => reg.tag = "NoMoreSolutions"))

\* The table of the unit fact is told NoMoreSolutions a second time: its
\* third frame (one for the answer, two for the refusals) is on the way out
C11_Witness ==
    /\ program.name = "unit"
    /\ RootReturns(1, 1)
    /\ reg.tag = "NoMoreSolutions"
    /\ dfn = 3

\* The answers of every table are the same in the next state
AnswersKept == \A t \in 1..Len(tables) : tables'[t].answers = tables[t].answers

\* The strands of every table but t are the same in the next state
OtherStrandsKept(t) ==
    /\ Len(tables') = Len(tables)
    /\ \A u \in 1..Len(tables) : u # t => tables'[u].strands = tables[u].strands

\* C12: a QuantumExceeded that comes back from a nested request puts the
\* requesting strand back at the end of its own table as it was, the strand
\* and then its frame return QuantumExceeded at once (the frame putting its
\* stashed strands back), and the root call returns QuantumExceeded; no
\* answer and no other strand is touched on the way.
C12_QuantumExceededUnwinds ==
    [][/\ (pc = "ret_ensure" /\ reg.tag = "QuantumExceeded" /\ Top.kind # "root")
              => /\ pc' = "ret_strand"
                 /\ reg'.tag = "QuantumExceeded"
                 /\ tables'[stack[Top.depth].table].strands
                        = Append(tables[stack[Top.depth].table].strands, Top.strand)
                 /\ OtherStrandsKept(stack[Top.depth].table)
                 /\ AnswersKept
                 /\ stack' = stack
       /\ (pc = "ret_strand" /\ reg.tag = "QuantumExceeded")
              => /\ pc' = "ret_ensure"
                 /\ reg'.tag = "QuantumExceeded"
                 /\ tables'[Top.table].strands
                        = tables[Top.table].strands \o Top.cyclic_strands
                 /\ OtherStrandsKept(Top.table)
                 /\ AnswersKept
                 /\ stack' = SubSeq(stack, 1, Len(stack) - 1)
       /\ (pc = "ret_ensure" /\ reg.tag = "QuantumExceeded" /\ Top.kind = "root")
              => /\ result' = "QuantumExceeded"
                 /\ pc' = "idle"
                 /\ tables' = tables]_vars

\* A QuantumExceeded has come back through two nested requests: the strand
\* of the second frame is back in its table
C12_Witness ==
    /\ pc = "ret_strand"
    /\ reg.tag = "QuantumExceeded"
    /\ Len(stack) = 2
    /\ reg.strand.selected_subgoal # NoSelected
    /\ tables[Top.table].strands # <<>>
    /\ tables[Top.table].strands[Len(tables[Top.table].strands)] = reg.strand

RootOutcomes == {"AnswerAvailable", "NoMoreSolutions", "QuantumExceeded"}

\* C13: the recursive call of a root request comes back with an answer, with
\* NoMoreSolutions or with QuantumExceeded, never with Coinductive or Cycle,
\* so ensure_root_answer never reaches its panic; and a Cycle that leaves a
\* frame that was pushed carries a minimum strictly below that frame's dfn.
C13_RootNeverCycles ==
    /\ [](/\ result # "panic"
          /\ (pc = "ret_ensure" /\ Top.kind = "root") => reg.tag \in RootOutcomes)
    /\ [][(pc' = "ret_ensure" /\ reg'.tag = "Cycle" /\ Len(stack') < Len(stack))
              => MinimumOfPosAndNeg(reg'.minimums) < stack[Len(stack)].dfn]_vars

\* A Cycle has left a pushed frame: the table it comes from is off the stack
C13_Witness ==
    /\ pc = "ret_ensure"
    /\ reg.tag = "Cycle"
    /\ IsActive(stack, reg.table) = 0
    /\ stack # <<>>

\* The calls of ensure_answer_recursively that have pushed a frame and have
\* not returned yet, outermost first
RunningCalls == SelectSeq(ctl, LAMBDA f : f.kind = "ensure")

\* C14: no table is on the stack twice, and the stack holds exactly the
\* tables of the running calls of ensure_answer_recursively that pushed one,
\* in the order of the calls.
C14_OnStackWhileRunning ==
    /\ \A d \in 1..Len(stack) : \A e \in 1..Len(stack) :
           stack[d].table = stack[e].table => d = e
    /\ Len(RunningCalls) = Len(stack)
    /\ \A d \in 1..Len(stack) :
           /\ RunningCalls[d].table = stack[d].table
           /\ RunningCalls[d].depth = d

\* Two calls are running, and a third one has just returned: its table is
\* off the stack
C14_Witness ==
    /\ Len(stack) = 2
    /\ pc = "ret_ensure"
    /\ reg.tag = "NoMoreSolutions"
    /\ IsActive(stack, reg.table) = 0
    /\ Len(RunningCalls) = 2

\* The answers of table t are at most one, delayed on the negation of table
\* u and nothing else, and the root requests for t return accordingly
OneAnswerDelayedOn(t, u) ==
    /\ Len(tables[t].answers) <= 1
    /\ \A i \in 1..Len(tables[t].answers) :
           /\ tables[t].answers[i].delayed_literals = <<Negative(u)>>
           /\ ~IsUnconditional(tables[t].answers[i])
    /\ RootReturns(t, 0) => reg.tag = "AnswerAvailable" /\ Len(tables[t].answers) = 1
    /\ RootReturns(t, 1) => reg.tag = "NoMoreSolutions"

\* C15: in A :- not B. B :- not A. the query A gets exactly one answer,
\* delayed on Negative(table of B), then NoMoreSolutions; the same holds for
\* B with the table of A; neither table ever holds an unconditional answer.
C15_MutualNegation ==
    program.name = "mutual_negation" =>
        LET a == IndexOf(tables, Ask("A"))
            b == IndexOf(tables, Ask("B"))
        IN  /\ a # 0 => OneAnswerDelayedOn(a, b)
            /\ b # 0 => OneAnswerDelayedOn(b, a)

\* Both queries have been asked to the end
C15_Witness ==
    /\ program.name = "mutual_negation"
    /\ pc = "idle"
    /\ result = "NoMoreSolutions"
    /\ Len(tables) = 2
    /\ \A t \in 1..2 : tables[t].answers # <<>>

\* C16: for W :- W with W coinductive the query W gets one answer, with no
\* delayed literals and no constraints, and then NoMoreSolutions; with W not
\* coinductive the same query gets NoMoreSolutions and its table never holds
\* an answer. Neither search panics or loops.
C16_CoinductiveLoop ==
    /\ program.name \in {"wf_coinductive", "wf_inductive"} =>
           pc \notin {"panic", "diverged"}
    /\ program.name = "wf_coinductive" =>
           \A t \in 1..Len(tables) :
               /\ Len(tables[t].answers) <= 1
               /\ \A i \in 1..Len(tables[t].answers) :
                      /\ tables[t].answers[i].delayed_literals = <<>>
                      /\ IsUnconditional(tables[t].answers[i])
               /\ RootReturns(t, 0) =>
                      reg.tag = "AnswerAvailable" /\ Len(tables[t].answers) = 1
               /\ RootReturns(t, 1) => reg.tag = "NoMoreSolutions"
    /\ program.name = "wf_inductive" =>
           \A t \in 1..Len(tables) :
               /\ tables[t].answers = <<>>
               /\ RootReturns(t, 0) => reg.tag = "NoMoreSolutions"

\* The coinductive query has been asked for its answer and for one more
C16_Witness ==
    /\ program.name = "wf_coinductive"
    /\ pc = "idle"
    /\ result = "NoMoreSolutions"
    /\ Len(tables) = 1
    /\ Len(tables[1].answers) = 1

\* The query of the program that is not coinductive has been answered
C16_WitnessInductive ==
    /\ program.name = "wf_inductive"
    /\ pc = "idle"
    /\ result = "NoMoreSolutions"
    /\ tables[1].strands = <<>>

NotR == IndexOf(tables, Goal(TRUE, "R", "a"))

NotQ == IndexOf(tables, Goal(TRUE, "Q", "a"))

\* C17: in the program Q. the query not(R) gets one answer, with no delayed
\* literals and no constraints, and then NoMoreSolutions; the table of
\* not(Q) never holds an answer, a request for it returns QuantumExceeded or
\* NoMoreSolutions, and once it has returned QuantumExceeded every later
\* request returns NoMoreSolutions.
C17_NegationAsFailure ==
    /\ [](program.name = "naf" =>
             /\ pc \notin {"panic", "diverged"}
             /\ NotR # 0 =>
                    /\ Len(tables[NotR].answers) <= 1
                    /\ \A i \in 1..Len(tables[NotR].answers) :
                           /\ tables[NotR].answers[i].delayed_literals = <<>>
                           /\ IsUnconditional(tables[NotR].answers[i])
                    /\ RootReturns(NotR, 0) =>
                           reg.tag = "AnswerAvailable" /\ Len(tables[NotR].answers) = 1
                    /\ RootReturns(NotR, 1) => reg.tag = "NoMoreSolutions"
             /\ NotQ # 0 =>
                    /\ tables[NotQ].answers = <<>>
                    /\ RootReturns(NotQ, 0) =>
                           reg.tag \in {"QuantumExceeded", "NoMoreSolutions"})
    /\ []((program.name = "naf" /\ NotQ # 0 /\ RootReturns(NotQ, 0)
              /\ reg.tag = "QuantumExceeded")
             => [](pc = "idle"
                     => [](RootReturns(NotQ, 0) => reg.tag = "NoMoreSolutions")))

\* Both queries have been asked to the end: not(R) has its answer, not(Q)
\* has ended with NoMoreSolutions
C17_Witness ==
    /\ program.name = "naf"
    /\ pc = "idle"
    /\ result = "NoMoreSolutions"
    /\ dfn = 5
    /\ NotR # 0
    /\ NotQ # 0
    /\ Len(tables[NotR].answers) = 1
    /\ tables[NotQ].strands = <<>>

HasCannotProve(delayed_literals) ==
    \E i \in 1..Len(delayed_literals) : delayed_literals[i] = CannotProve

\* pursue_strand is about to select a negative literal that cannot be
\* inverted or whose truncation overflows
Floundering ==
    /\ pc = "strand"
    /\ reg.strand.selected_subgoal = NoSelected
    /\ reg.strand.ex_clause.subgoals # <<>>
    /\ LET literal == reg.strand.ex_clause.subgoals[Len(reg.strand.ex_clause.subgoals)]
       IN  literal.neg /\ (InvertFails(literal.arg) \/ Overflow(literal.arg))

\* C18: when the selected literal flounders, no table is created or changed,
\* the strand loses that subgoal, gains CannotProve and goes on running in
\* the same frame; a strand that carries CannotProve and pushes an answer
\* pushes one whose delayed literals contain CannotProve; and the query whose
\* only clause flounders first and resolves a further subgoal afterwards
\* ends with conditional answers only, without a panic.
C18_FlounderingGoesOn ==
    /\ [][Floundering =>
              /\ tables' = tables
              /\ stack' = stack
              /\ ctl' = ctl
              /\ pc' = "strand"
              /\ reg'.strand.selected_subgoal = NoSelected
              /\ reg'.strand.ex_clause.subgoals
                     = SubSeq(reg.strand.ex_clause.subgoals, 1,
                              Len(reg.strand.ex_clause.subgoals) - 1)
              /\ reg'.strand.ex_clause.delayed_literals
                     = Append(reg.strand.ex_clause.delayed_literals, CannotProve)]_vars
    /\ [][(/\ pc = "strand"
           /\ HasCannotProve(reg.strand.ex_clause.delayed_literals)
           /\ pc' = "ret_strand"
           /\ reg'.tag = "Ok")
              => /\ Len(tables'[Top.table].answers) = Len(tables[Top.table].answers) + 1
                 /\ LET answer == tables'[Top.table].answers[Len(tables'[Top.table].answers)]
                    IN  /\ HasCannotProve(answer.delayed_literals)
                        /\ ~IsUnconditional(answer)]_vars
    /\ [](program.name \in {"flounder", "flounder_first"} =>
              /\ pc # "panic"
              /\ tables # <<>> =>
                     \A i \in 1..Len(tables[1].answers) :
                         /\ HasCannotProve(tables[1].answers[i].delayed_literals)
                         /\ ~IsUnconditional(tables[1].answers[i]))

\* The strand that floundered on its last literal has gone on to resolve the
\* other one and has pushed its answer
C18_Witness ==
    /\ program.name = "flounder_first"
    /\ pc = "idle"
    /\ result = "Ok"
    /\ Len(tables) = 2
    /\ Len(tables[1].answers) = 1
    /\ HasCannotProve(tables[1].answers[1].delayed_literals)

VecSized == IndexOf(tables, Ask("S"))

\* C19: in S(a) :- S(b). S(b). the table of the query S(a) never holds more
\* than one answer, that answer is trivial, and once it is there the table
\* has no strand; the step that pushes it finds the sibling strand waiting
\* for answer 1 of the subgoal in the table and removes it; the request for
\* answer 0 returns the answer and the request for answer 1 NoMoreSolutions.
C19_TrivialCut ==
    /\ [](program.name = "vec" /\ VecSized # 0 =>
              /\ pc \notin {"panic", "diverged"}
              /\ Len(tables[VecSized].answers) <= 1
              /\ \A i \in 1..Len(tables[VecSized].answers) :
                     IsTrivialAnswer(tables[VecSized], tables[VecSized].answers[i])
              /\ tables[VecSized].answers # <<>> => tables[VecSized].strands = <<>>
              /\ RootReturns(VecSized, 0) =>
                     reg.tag = "AnswerAvailable" /\ Len(tables[VecSized].answers) = 1
              /\ RootReturns(VecSized, 1) => reg.tag = "NoMoreSolutions")
    /\ [][(/\ program.name = "vec"
           /\ VecSized # 0
           /\ tables'[VecSized].answers # tables[VecSized].answers)
              => /\ Len(tables[VecSized].strands) = 1
                 /\ tables[VecSized].strands[1].selected_subgoal.answer_index = 1
                 /\ tables'[VecSized].strands = <<>>]_vars

\* The query has been asked for its answer and for one more
C19_Witness ==
    /\ program.name = "vec"
    /\ pc = "idle"
    /\ result = "NoMoreSolutions"
    /\ VecSized # 0
    /\ Len(tables[VecSized].answers) = 1
    /\ tables[VecSized].strands = <<>>

\* C20: in the program P. the request for answer 0 of the query P returns
\* the answer, the table then holds exactly that one answer, with an empty
\* set of delayed literals and no constraints, and the request for answer 1
\* returns NoMoreSolutions.
C20_UnitFact ==
    (program.name = "unit" /\ tables # <<>>) =>
        /\ pc \notin {"panic", "diverged"}
        /\ Len(tables) = 1
        /\ Len(tables[1].answers) <= 1
        /\ \A i \in 1..Len(tables[1].answers) :
               /\ tables[1].answers[i].delayed_literals = <<>>
               /\ IsUnconditional(tables[1].answers[i])
        /\ RootReturns(1, 0) => reg.tag = "AnswerAvailable" /\ Len(tables[1].answers) = 1
        /\ RootReturns(1, 1) => reg.tag = "NoMoreSolutions"

\* P has been asked for its answer and for one more
C20_Witness ==
    /\ program.name = "unit"
    /\ pc = "idle"
    /\ result = "NoMoreSolutions"
    /\ Len(tables[1].answers) = 1
    /\ IsUnconditional(tables[1].answers[1])

\* The request in reg is for an answer its table does not hold, the table is
\* on the stack at depth d, and some frame from d to the top is not
\* coinductive
CycleRequested(d) ==
    /\ pc = "ensure"
    /\ Len(tables[reg.table].answers) <= reg.answer
    /\ d \in 1..Len(stack)
    /\ stack[d].table = reg.table
    /\ \E e \in d..Len(stack) : ~tables[stack[e].table].coinductive_goal

\* C21: a request for an absent answer of a table that is on the stack at
\* depth d, with a frame that is not coinductive from d to the top, returns
\* Cycle with positive = the dfn of the frame at d and negative = MAX, and
\* leaves the stack, the dfn counter, the tables and the frames as they were.
C21_CycleWithoutPush ==
    [][\A d \in 1..Len(stack) :
           CycleRequested(d) =>
               /\ pc' = "ret_ensure"
               /\ reg'.tag = "Cycle"
               /\ reg'.minimums = Minimums(stack[d].dfn, DfnMAX)
               /\ stack' = stack
               /\ dfn' = dfn
               /\ tables' = tables
               /\ ctl' = ctl]_vars

\* A coinductive table on the stack has been asked again from under a frame
\* that is not coinductive, and the request has come back as a Cycle
C21_Witness ==
    /\ pc = "ret_ensure"
    /\ reg.tag = "Cycle"
    /\ tables[reg.table].coinductive_goal
    /\ IsActive(stack, reg.table) # 0
    /\ IsActive(stack, reg.table) < Len(stack)
    /\ reg.minimums = Minimums(stack[IsActive(stack, reg.table)].dfn, DfnMAX)

\* The tables the strands select
SelectedTables(strands) ==
    {strands[i].selected_subgoal.subgoal_table : i \in 1..Len(strands)} \ {0}

\* The tables reachable from the set S through the selected subgoals of the
\* strands in their queues
RECURSIVE ReachableTables(_)
ReachableTables(S) ==
    LET T == S \cup UNION {SelectedTables(tables[t].strands) : t \in S}
    IN  IF T = S THEN S ELSE ReachableTables(T)

\* pursue_next_strand has run out of strands with some stashed
CycleCalled ==
    /\ pc = "next"
    /\ tables[Top.table].strands = <<>>
    /\ Top.cyclic_strands # <<>>

ClosedCycle ==
    /\ CycleCalled
    /\ Top.cyclic_minimums.positive = stack[Top.depth].dfn
    /\ Top.cyclic_minimums.negative = DfnMAX

\* C22: when cycle() finds positive = the dfn of its frame and negative =
\* MAX, the call returns NoMoreSolutions, the stashed strands are in no
\* table, every table reachable from them through selected subgoals has an
\* empty queue, the table of the frame included, and no other table and no
\* answer is changed.
C22_ClosedCycleCleared ==
    [][ClosedCycle =>
           LET reached == ReachableTables(SelectedTables(Top.cyclic_strands))
           IN  /\ pc' = "ret_ensure"
               /\ reg'.tag = "NoMoreSolutions"
               /\ Len(tables') = Len(tables)
               /\ tables'[Top.table].strands = <<>>
               /\ \A t \in 1..Len(tables) :
                      /\ t \in reached => tables'[t].strands = <<>>
                      /\ t \notin reached => tables'[t].strands = tables[t].strands
                      /\ tables'[t].answers = tables[t].answers
               /\ stack' = SubSeq(stack, 1, Len(stack) - 1)]_vars

\* The cycle through three tables has been closed at the first of them: the
\* queues of all three are empty and none has an answer
C22_Witness ==
    /\ program.name = "long_cycle"
    /\ pc = "ret_ensure"
    /\ reg.tag = "NoMoreSolutions"
    /\ stack = <<>>
    /\ Len(tables) = 3
    /\ \A t \in 1..3 : tables[t].strands = <<>> /\ tables[t].answers = <<>>

\* The tables reachable in tbls from the set S through the selected subgoals
\* of the strands in their queues
RECURSIVE ReachableIn(_, _)
ReachableIn(tbls, S) ==
    LET T == S \cup UNION {{tbls[t].strands[i].selected_subgoal.subgoal_table :
                               i \in 1..Len(tbls[t].strands)} \ {0} : t \in S}
    IN  IF T = S THEN S ELSE ReachableIn(tbls, T)

\* The strand after the delay walk has passed over it
AfterDelay(strand) ==
    IF strand.ex_clause.subgoals[strand.selected_subgoal.subgoal_index].neg
    THEN [ex_clause |->
              [strand.ex_clause EXCEPT
                   !.subgoals = SubSeq(@, 1, strand.selected_subgoal.subgoal_index - 1)
                                    \o SubSeq(@, strand.selected_subgoal.subgoal_index + 1,
                                              Len(@)),
                   !.delayed_literals =
                       Append(@, Negative(strand.selected_subgoal.subgoal_table))],
          selected_subgoal |-> NoSelected]
    ELSE strand

NegativeCycleAtFrame ==
    /\ CycleCalled
    /\ ~ClosedCycle
    /\ Top.cyclic_minimums.positive >= stack[Top.depth].dfn
    /\ Top.cyclic_minimums.negative >= stack[Top.depth].dfn

\* C23: in the second case of cycle() the stashed strands go back to the
\* queue of the frame's table, and in that table and every table reachable
\* from it through selected subgoals each strand whose selected literal is
\* negative loses the literal, gains Negative(subgoal table) at the end of
\* its delayed literals and has no selected subgoal any more, while the
\* other strands, the other tables and all answers stay as they are; the
\* frame goes on with the next strand.
C23_NegativeCycleDelayed ==
    [][NegativeCycleAtFrame =>
           LET before == [tables EXCEPT ![Top.table].strands = @ \o Top.cyclic_strands]
               reached == ReachableIn(before, {Top.table})
           IN  /\ pc' \in {"next", "diverged"}
               /\ stack' = stack
               /\ Len(ctl') = Len(ctl)
               /\ ctl'[Len(ctl)].cyclic_strands = <<>>
               /\ Len(tables') = Len(tables)
               /\ \A t \in 1..Len(tables) :
                      /\ tables'[t].answers = tables[t].answers
                      /\ Len(tables'[t].strands) = Len(before[t].strands)
                      /\ \A i \in 1..Len(before[t].strands) :
                             tables'[t].strands[i] =
                                 IF t \in reached THEN AfterDelay(before[t].strands[i])
                                 ELSE before[t].strands[i]]_vars

\* After a delay walk the frame's table holds a strand that was delayed and
\* one that was left with its positive literal selected, and another table
\* holds a delayed strand
C23_Witness ==
    /\ pc = "next"
    /\ Top.delay_history # {}
    /\ Top.cyclic_strands = <<>>
    /\ \E i \in 1..Len(tables[Top.table].strands) :
           LET strand == tables[Top.table].strands[i]
           IN  /\ strand.selected_subgoal = NoSelected
               /\ strand.ex_clause.delayed_literals # <<>>
    /\ \E i \in 1..Len(tables[Top.table].strands) :
           tables[Top.table].strands[i].selected_subgoal # NoSelected
    /\ \E t \in 1..Len(tables) :
           /\ t # Top.table
           /\ \E i \in 1..Len(tables[t].strands) :
                  /\ tables[t].strands[i].selected_subgoal = NoSelected
                  /\ tables[t].strands[i].ex_clause.delayed_literals # <<>>

\* The component-wise minimum of a sequence of minimums, from (MAX, MAX)
RECURSIVE MinimumsOfAll(_)
MinimumsOfAll(ms) ==
    IF ms = <<>> THEN MinimumsMAX
    ELSE Minimums(Min2(Head(ms).positive, MinimumsOfAll(Tail(ms)).positive),
                  Min2(Head(ms).negative, MinimumsOfAll(Tail(ms)).negative))

DependencyBelowFrame ==
    /\ CycleCalled
    /\ \/ Top.cyclic_minimums.positive < stack[Top.depth].dfn
       \/ Top.cyclic_minimums.negative < stack[Top.depth].dfn

\* C24: in the third case of cycle() the stashed strands go back to the end
\* of the queue of the frame's table as they are, nothing else changes in the
\* tables, and the call returns Cycle with the merged minimums, which are the
\* component-wise minimum of the minimums of the strands that are stashed.
C24_DependencyBelowPropagated ==
    [][DependencyBelowFrame =>
           /\ pc' = "ret_ensure"
           /\ reg'.tag = "Cycle"
           /\ reg'.minimums = Top.cyclic_minimums
           /\ reg'.minimums = MinimumsOfAll(Top.stashed_minimums)
           /\ tables' = [tables EXCEPT ![Top.table].strands = @ \o Top.cyclic_strands]]_vars

\* The same without the account of where the merged minimums come from
C24_StrandsRequeuedOnPropagate ==
    [][DependencyBelowFrame =>
           /\ pc' = "ret_ensure"
           /\ reg'.tag = "Cycle"
           /\ reg'.minimums = Top.cyclic_minimums
           /\ tables' = [tables EXCEPT ![Top.table].strands = @ \o Top.cyclic_strands]]_vars

\* C25: when the strand pursue_next_strand has pursued ends with NoSolution
\* or QuantumExceeded, the stashed strands go back to the end of the table's
\* queue and the call returns QuantumExceeded, whatever is left in the
\* queue; and NoMoreSolutions is returned only from a frame whose queue is
\* empty, with nothing stashed or in the closed-cycle case of cycle().
C25_FailureIsQuantumExceeded ==
    [][/\ (pc = "ret_strand" /\ reg.tag \in {"NoSolution", "QuantumExceeded"})
              => /\ pc' = "ret_ensure"
                 /\ reg'.tag = "QuantumExceeded"
                 /\ tables' = [tables EXCEPT ![Top.table].strands =
                                                 @ \o Top.cyclic_strands]
       /\ (pc' = "ret_ensure" /\ reg'.tag = "NoMoreSolutions")
              => /\ pc = "next"
                 /\ tables[Top.table].strands = <<>>
                 /\ Top.cyclic_strands = <<>> \/ ClosedCycle]_vars

\* The only strand of the table has failed: the call has returned
\* QuantumExceeded although the queue is empty
C25_Witness ==
    /\ pc = "ret_ensure"
    /\ reg.tag = "QuantumExceeded"
    /\ tables[reg.table].strands = <<>>
    /\ tables[reg.table].answers = <<>>
    /\ IsActive(stack, reg.table) = 0

\* pursue_strand is at the head of its while loop, nothing selected
NothingSelected ==
    /\ pc = "strand"
    /\ reg.strand.selected_subgoal = NoSelected

\* The step hands the strand to pursue_answer, which selects nothing
AnswerAttempted ==
    /\ pc' = "ret_strand"
    /\ reg'.tag \in {"Ok", "NoSolution"}
    /\ reg'.strand = reg.strand

\* The step selects the last literal of the list, with answer index 0, and
\* leaves the ex-clause as it is
LastLiteralSelected ==
    /\ pc' = "strand"
    /\ reg'.strand.ex_clause = reg.strand.ex_clause
    /\ reg'.strand.selected_subgoal.subgoal_index = Len(reg.strand.ex_clause.subgoals)
    /\ reg'.strand.selected_subgoal.answer_index = 0
    /\ reg'.strand.selected_subgoal.subgoal_table \in 1..Len(tables')

\* C26 as stated: a strand with nothing selected and a non-empty list
\* always selects the last literal of the list, with answer index 0, and a
\* strand with an empty list is turned into an answer attempt.
C26_AlwaysSelectsLast ==
    [][NothingSelected =>
           IF reg.strand.ex_clause.subgoals = <<>> THEN AnswerAttempted
           ELSE LastLiteralSelected]_vars

\* C26, amended: the last literal is the one picked; it is selected, with
\* answer index 0, unless it flounders, and then it is removed, CannotProve
\* is recorded, nothing is selected and the choice is made again on the
\* shorter list; a strand with an empty list is turned into an answer
\* attempt.
C26_SelectsLastUnlessFloundering ==
    [][NothingSelected =>
           IF reg.strand.ex_clause.subgoals = <<>> THEN AnswerAttempted
           ELSE IF Floundering
                THEN /\ pc' = "strand"
                     /\ reg'.strand.selected_subgoal = NoSelected
                     /\ reg'.strand.ex_clause.subgoals
                            = SubSeq(reg.strand.ex_clause.subgoals, 1,
                                     Len(reg.strand.ex_clause.subgoals) - 1)
                ELSE LastLiteralSelected]_vars

\* A strand of two literals has lost the last one to floundering and has
\* then selected the one that is left
C26_Witness ==
    /\ program.name = "flounder_first"
    /\ pc = "strand"
    /\ reg.strand.selected_subgoal # NoSelected
    /\ reg.strand.selected_subgoal.subgoal_index = Len(reg.strand.ex_clause.subgoals)
    /\ reg.strand.selected_subgoal.answer_index = 0
    /\ HasCannotProve(reg.strand.ex_clause.delayed_literals)

\* The request of a positive subgoal has come back with the given result
PositiveRequestReturned(tags) ==
    /\ pc = "ret_ensure"
    /\ Top.kind = "positive"
    /\ reg.tag \in tags

\* The queue of the frame's table gains the strand at its end, and nothing
\* else changes in the tables
Enqueued(strand) ==
    tables' = [tables EXCEPT ![stack[Top.depth].table].strands = Append(@, strand)]

\* C27: when the requested answer k of a positive subgoal is available, the
\* strand as it was handed in, with answer_index k + 1, is added to the queue
\* of the current table, whether or not the answer unifies; after Coinductive,
\* NoMoreSolutions or Cycle the tables are left alone, and after
\* QuantumExceeded the strand itself goes back, with answer_index k.
C27_SiblingForNextAnswer ==
    [][/\ PositiveRequestReturned({"AnswerAvailable"})
              => /\ Enqueued([Top.strand EXCEPT !.selected_subgoal.answer_index = @ + 1])
                 /\ \/ pc' = "strand"
                    \/ pc' = "ret_strand" /\ reg'.tag = "NoSolution"
       /\ PositiveRequestReturned({"Coinductive", "NoMoreSolutions", "Cycle"})
              => tables' = tables
       /\ PositiveRequestReturned({"QuantumExceeded"})
              => Enqueued(Top.strand)]_vars

\* The answer did not unify with the literal, and the sibling for the next
\* answer is at the end of the queue all the same
C27_Witness ==
    /\ pc = "ret_strand"
    /\ reg.tag = "NoSolution"
    /\ reg.strand.selected_subgoal # NoSelected
    /\ ~reg.strand.ex_clause.subgoals[reg.strand.selected_subgoal.subgoal_index].neg
    /\ HasAnswer(tables[reg.strand.selected_subgoal.subgoal_table],
                 reg.strand.selected_subgoal.answer_index)
    /\ tables[Top.table].strands # <<>>
    /\ tables[Top.table].strands[Len(tables[Top.table].strands)]
           = [reg.strand EXCEPT !.selected_subgoal.answer_index = @ + 1]

\* The answer the strand in the frame has asked for
RequestedAnswer ==
    tables[Top.strand.selected_subgoal.subgoal_table]
        .answers[Top.strand.selected_subgoal.answer_index + 1]

\* C28: when a strand resolves its selected positive literal against an
\* answer, its delayed literals gain Positive(subgoal table, substitution of
\* the answer) at the end if the answer has delayed literals and stay as
\* they are if it has none; a strand with delayed literals that pushes an
\* answer pushes a conditional one; and in A :- not B. B :- not A. C :- A.
\* every answer of C is delayed on the answer of A it was derived from.
C28_FactorRule ==
    /\ [][(PositiveRequestReturned({"AnswerAvailable"}) /\ pc' = "strand")
              => /\ reg'.strand.selected_subgoal = NoSelected
                 /\ reg'.strand.ex_clause.delayed_literals =
                        IF RequestedAnswer.delayed_literals # <<>>
                        THEN Append(Top.strand.ex_clause.delayed_literals,
                                    Positive(Top.strand.selected_subgoal.subgoal_table,
                                             RequestedAnswer.subst,
                                             RequestedAnswer.constraints))
                        ELSE Top.strand.ex_clause.delayed_literals]_vars
    /\ [][(/\ pc = "strand"
           /\ reg.strand.ex_clause.delayed_literals # <<>>
           /\ pc' = "ret_strand"
           /\ reg'.tag = "Ok")
              => LET answers == tables'[Top.table].answers
                 IN  /\ Len(answers) = Len(tables[Top.table].answers) + 1
                     /\ answers[Len(answers)].delayed_literals # <<>>
                     /\ \A i \in 1..Len(reg.strand.ex_clause.delayed_literals) :
                            \E j \in 1..Len(answers[Len(answers)].delayed_literals) :
                                answers[Len(answers)].delayed_literals[j]
                                    = reg.strand.ex_clause.delayed_literals[i]
                     /\ ~IsUnconditional(answers[Len(answers)])]_vars
    /\ [](program.name = "factor" =>
              LET c == IndexOf(tables, Ask("C"))
                  a == IndexOf(tables, Ask("A"))
              IN  c # 0 =>
                      \A i \in 1..Len(tables[c].answers) :
                          /\ a # 0
                          /\ \E j \in 1..Len(tables[a].answers) :
                                 /\ tables[a].answers[j].delayed_literals # <<>>
                                 /\ tables[c].answers[i].delayed_literals
                                        = <<Positive(a, tables[a].answers[j].subst,
                                                     tables[a].answers[j].constraints)>>)

\* C has been answered through the conditional answer of A
C28_Witness ==
    /\ program.name = "factor"
    /\ pc = "idle"
    /\ result = "Ok"
    /\ IndexOf(tables, Ask("C")) # 0
    /\ tables[IndexOf(tables, Ask("C"))].answers # <<>>
    /\ ~IsUnconditional(tables[IndexOf(tables, Ask("C"))].answers[1])

\* C29: a positive request comes back Coinductive only when the table of the
\* current frame and the subgoal table are both coinductive; the strand then
\* goes on with the selected literal removed, nothing selected and its
\* delayed literals, substitution and constraints as they were, and no table
\* is changed: the subgoal table gets no answer for the request.
C29_CoinductiveDropsSubgoal ==
    [][PositiveRequestReturned({"Coinductive"}) =>
           LET sel == Top.strand.selected_subgoal
               subgoals == Top.strand.ex_clause.subgoals
           IN  /\ tables[stack[Top.depth].table].coinductive_goal
               /\ tables[sel.subgoal_table].coinductive_goal
               /\ pc' = "strand"
               /\ reg'.strand.selected_subgoal = NoSelected
               /\ reg'.strand.ex_clause =
                      [Top.strand.ex_clause EXCEPT
                           !.subgoals = SubSeq(subgoals, 1, sel.subgoal_index - 1)
                                            \o SubSeq(subgoals, sel.subgoal_index + 1,
                                                      Len(subgoals))]
               /\ tables' = tables
               /\ Len(tables[sel.subgoal_table].answers) <= sel.answer_index]_vars

\* The strand of W :- W has had its literal dropped and is about to push its
\* answer; the table of W has no answer yet
C29_Witness ==
    /\ program.name = "wf_coinductive"
    /\ pc = "strand"
    /\ reg.strand.selected_subgoal = NoSelected
    /\ reg.strand.ex_clause.subgoals = <<>>
    /\ reg.strand.ex_clause.delayed_literals = <<>>
    /\ tables[1].answers = <<>>

\* The request of a negative subgoal has come back Coinductive, or with an
\* answer that has no delayed literals and no constraints
NegationRefuted ==
    /\ pc = "ret_ensure"
    /\ Top.kind = "negative"
    /\ \/ reg.tag = "Coinductive"
       \/ /\ reg.tag = "AnswerAvailable"
          /\ RequestedAnswer.delayed_literals = <<>>
          /\ RequestedAnswer.constraints = {}

\* C30: when the request of a negative subgoal comes back Coinductive or
\* with an unconditional answer, the strand returns NoSolution and no table
\* is changed; the frame that ran the strand then returns with the queue of
\* its table extended by the stashed strands only, and with no new answer.
C30_NegationRefuted ==
    [][/\ NegationRefuted
              => /\ pc' = "ret_strand"
                 /\ reg'.tag = "NoSolution"
                 /\ tables' = tables
       /\ (pc = "ret_strand" /\ reg.tag = "NoSolution")
              => /\ pc' = "ret_ensure"
                 /\ Len(tables') = Len(tables)
                 /\ Len(tables'[Top.table].strands)
                        = Len(tables[Top.table].strands) + Len(Top.cyclic_strands)
                 /\ \A t \in 1..Len(tables) : tables'[t].answers = tables[t].answers]_vars

\* A strand has failed on a negative literal whose table holds an
\* unconditional answer
C30_Witness ==
    /\ pc = "ret_strand"
    /\ reg.tag = "NoSolution"
    /\ reg.strand.selected_subgoal # NoSelected
    /\ reg.strand.ex_clause.subgoals[reg.strand.selected_subgoal.subgoal_index].neg
    /\ HasAnswer(tables[reg.strand.selected_subgoal.subgoal_table],
                 reg.strand.selected_subgoal.answer_index)
    /\ IsUnconditional(AnswerAt(tables[reg.strand.selected_subgoal.subgoal_table],
                                reg.strand.selected_subgoal.answer_index))
    /\ \A i \in 1..Len(tables[Top.table].strands) :
           tables[Top.table].strands[i] # reg.strand

\* The request of a negative subgoal has come back with the given result
NegativeRequestReturned(tags) ==
    /\ pc = "ret_ensure"
    /\ Top.kind = "negative"
    /\ reg.tag \in tags

\* The strand of the frame goes on with its selected literal removed, the
\* given delayed literals added at the end and nothing selected; no table
\* changes
GoesOnWithout(delayed) ==
    LET sel == Top.strand.selected_subgoal
        subgoals == Top.strand.ex_clause.subgoals
    IN  /\ pc' = "strand"
        /\ reg'.strand.selected_subgoal = NoSelected
        /\ reg'.strand.ex_clause =
               [Top.strand.ex_clause EXCEPT
                    !.subgoals = SubSeq(subgoals, 1, sel.subgoal_index - 1)
                                     \o SubSeq(subgoals, sel.subgoal_index + 1, Len(subgoals)),
                    !.delayed_literals = @ \o delayed]
        /\ tables' = tables

\* C31: after the request of a negative literal the strand goes on with the
\* literal removed in two cases and no other: the subgoal table returned
\* NoMoreSolutions, and then no delayed literal is added and that table has
\* neither an answer nor a strand left; or the answer is there and is
\* conditional, and then Negative(subgoal table) is added. In every other
\* case the strand returns.
C31_NegativeLiteralResolved ==
    [][/\ NegativeRequestReturned({"NoMoreSolutions"})
              => /\ GoesOnWithout(<<>>)
                 /\ tables[Top.strand.selected_subgoal.subgoal_table].answers = <<>>
                 /\ tables[Top.strand.selected_subgoal.subgoal_table].strands = <<>>
       /\ (NegativeRequestReturned({"AnswerAvailable"}) /\ ~IsUnconditional(RequestedAnswer))
              => GoesOnWithout(<<Negative(Top.strand.selected_subgoal.subgoal_table)>>)
       /\ (NegativeRequestReturned({"Coinductive", "Cycle", "QuantumExceeded"})
              \/ (NegativeRequestReturned({"AnswerAvailable"})
                      /\ IsUnconditional(RequestedAnswer)))
              => pc' = "ret_strand"]_vars

\* The negative literal met an answer that holds under region constraints
\* only: the strand goes on, delayed on the table of the literal
C31_Witness ==
    /\ program.name = "constraints"
    /\ pc = "strand"
    /\ reg.strand.selected_subgoal = NoSelected
    /\ reg.strand.ex_clause.subgoals = <<>>
    /\ reg.strand.ex_clause.delayed_literals # <<>>
    /\ LET d == reg.strand.ex_clause.delayed_literals[1]
       IN  /\ d.kind = "Negative"
           /\ tables[d.table].answers # <<>>
           /\ ~IsUnconditional(tables[d.table].answers[1])

\* C32: when the request of a negative literal comes back Cycle(mins), the
\* strand is returned as it is with minimums (dfn of the current frame, the
\* smaller of mins.positive and mins.negative) and goes into no table; the
\* negative component is below MAX, and cycle() never takes its closed-cycle
\* case with such a strand in the stash.
C32_NegativeEdgeInCycle ==
    /\ [][NegativeRequestReturned({"Cycle"}) =>
              /\ pc' = "ret_strand"
              /\ reg'.tag = "Cycle"
              /\ reg'.strand = Top.strand
              /\ reg'.minimums.positive = stack[Top.depth].dfn
              /\ reg'.minimums.negative =
                     IF reg.minimums.positive < reg.minimums.negative
                     THEN reg.minimums.positive
                     ELSE reg.minimums.negative
              /\ reg'.minimums.negative < DfnMAX
              /\ tables' = tables]_vars
    /\ [](ClosedCycle =>
              \A i \in 1..Len(Top.cyclic_strands) :
                  LET strand == Top.cyclic_strands[i]
                  IN  ~strand.ex_clause.subgoals[strand.selected_subgoal.subgoal_index].neg)

\* A strand comes back from a negative literal that depends on a frame
\* further down the stack
C32_Witness ==
    /\ pc = "ret_strand"
    /\ reg.tag = "Cycle"
    /\ reg.strand.ex_clause.subgoals[reg.strand.selected_subgoal.subgoal_index].neg
    /\ reg.minimums.positive = stack[Top.depth].dfn
    /\ reg.minimums.negative < reg.minimums.positive
    /\ \A i \in 1..Len(tables[Top.table].strands) :
           tables[Top.table].strands[i] # reg.strand

\* The step is pursue_answer on the strand in hand
PursueAnswerCalled ==
    /\ pc = "strand"
    /\ reg.strand.ex_clause.subgoals = <<>>
    /\ pc' = "ret_strand"

\* The table holds an answer equal to the one the strand stands for
AlreadyAnswered(table, strand) ==
    \E i \in 1..Len(tables[table].answers) :
        SameAnswer(tables[table].answers[i], strand.ex_clause)

\* C33: pursue_answer on a strand that stands for an answer already in the
\* table returns NoSolution and changes no table; otherwise it returns Ok and
\* the answer is the new last one of the table, at the index that was
\* next_answer_index, in front of it the answers as they were.
C33_DuplicateAnswer ==
    [][PursueAnswerCalled =>
           IF AlreadyAnswered(Top.table, reg.strand)
           THEN /\ reg'.tag = "NoSolution"
                /\ tables' = tables
           ELSE /\ reg'.tag = "Ok"
                /\ Len(tables'[Top.table].answers) = NextAnswerIndex(tables[Top.table]) + 1
                /\ SameAnswer(tables'[Top.table].answers[NextAnswerIndex(tables[Top.table]) + 1],
                              reg.strand.ex_clause)
                /\ SubSeq(tables'[Top.table].answers, 1, Len(tables[Top.table].answers))
                       = tables[Top.table].answers
                /\ \A t \in 1..Len(tables) : t # Top.table => tables'[t] = tables[t]]_vars

\* A trivial answer came a second time while strands were waiting in the table
C33_Witness ==
    /\ pc = "ret_strand"
    /\ reg.tag = "NoSolution"
    /\ reg.strand.ex_clause.subgoals = <<>>
    /\ AlreadyAnswered(Top.table, reg.strand)
    /\ IsTrivialAnswer(tables[Top.table], StrandAnswer(reg.strand))
    /\ tables[Top.table].strands # <<>>

\* pursue_answer has just pushed the strand in hand as a new answer
AnswerPushed ==
    /\ PursueAnswerCalled
    /\ reg'.tag = "Ok"

\* C34: right after pursue_answer pushed a new answer with no delayed
\* literal, a trivial substitution and no region constraint the strand queue
\* of the table is empty; after any other new answer the queue is as it was.
C34_GreenCutExactly ==
    [][AnswerPushed =>
           IF /\ reg.strand.ex_clause.delayed_literals = <<>>
              /\ IsTrivialSubstitution(tables[Top.table].table_goal, reg.strand.ex_clause.subst)
              /\ reg.strand.ex_clause.constraints = {}
           THEN tables'[Top.table].strands = <<>>
           ELSE tables'[Top.table].strands = tables[Top.table].strands]_vars

\* An answer true of every case but under region constraints has been
\* pushed, and the strands of the table are still queued
C34_Witness ==
    /\ pc = "ret_strand"
    /\ reg.tag = "Ok"
    /\ reg.strand.ex_clause.subgoals = <<>>
    /\ reg.strand.ex_clause.delayed_literals = <<>>
    /\ IsTrivialSubstitution(tables[Top.table].table_goal, reg.strand.ex_clause.subst)
    /\ reg.strand.ex_clause.constraints # {}
    /\ tables[Top.table].strands # <<>>

\* The clauses of the program that give a domain goal an initial strand
SatisfiableClauses(goal) ==
    {i \in 1..Len(program.clauses) :
        /\ program.clauses[i].head.pred = goal.pred
        /\ ResolventClause(goal, program.clauses[i]).sat}

\* The step has the strand in hand select a subgoal
SubgoalSelected ==
    /\ pc = "strand"
    /\ reg.strand.selected_subgoal = NoSelected
    /\ pc' = "strand"
    /\ reg'.strand.selected_subgoal # NoSelected

\* The table the step has added
NewTable == tables'[Len(tables) + 1]

\* C35: no two tables have the same goal; no step removes a table or changes
\* the goal or the coinductive flag of one; a step adds at most one table,
\* for a goal no table has, with the flag of the goal, no answer and its
\* initial strands (one per satisfiable clause for a domain goal, at most
\* one otherwise, none with a selected subgoal), leaving the others as they
\* are; and a strand selecting a subgoal gets the table of that goal, with
\* all tables unchanged when the goal had one.
C35_TablesInterned ==
    /\ [](\A t, u \in 1..Len(tables) :
              tables[t].table_goal = tables[u].table_goal => t = u)
    /\ [][/\ Len(tables') \in {Len(tables), Len(tables) + 1}
          /\ \A t \in 1..Len(tables) :
                 /\ tables'[t].table_goal = tables[t].table_goal
                 /\ tables'[t].coinductive_goal = tables[t].coinductive_goal
          /\ Len(tables') = Len(tables) + 1 =>
                 /\ \A t \in 1..Len(tables) :
                        /\ tables'[t] = tables[t]
                        /\ tables[t].table_goal # NewTable.table_goal
                 /\ NewTable.coinductive_goal = IsCoinductive(program, NewTable.table_goal)
                 /\ NewTable.answers = <<>>
                 /\ \A i \in 1..Len(NewTable.strands) :
                        NewTable.strands[i].selected_subgoal = NoSelected
                 /\ IF NewTable.table_goal.neg
                    THEN Len(NewTable.strands) <= 1
                    ELSE Len(NewTable.strands)
                             = Cardinality(SatisfiableClauses(NewTable.table_goal))
          /\ SubgoalSelected =>
                 LET goal == SubgoalGoal(reg'.strand.ex_clause.subgoals[
                                 reg'.strand.selected_subgoal.subgoal_index]).goal
                 IN  /\ tables'[reg'.strand.selected_subgoal.subgoal_table].table_goal = goal
                     /\ (\E t \in 1..Len(tables) : tables[t].table_goal = goal)
                            => tables' = tables]_vars

\* A strand has selected a subgoal whose table is older than the strand's own
\* table, so that the goal had its table when the strand selected it, and
\* that table holds an answer by now
C35_Witness ==
    /\ pc = "strand"
    /\ reg.strand.selected_subgoal # NoSelected
    /\ reg.strand.selected_subgoal.subgoal_table < Top.table
    /\ tables[reg.strand.selected_subgoal.subgoal_table].answers # <<>>
    /\ Len(tables) >= 3

\* The strand asks for an answer its subgoal table has, or for the next one
MonotoneRequest(strand) ==
    strand.selected_subgoal # NoSelected =>
        strand.selected_subgoal.answer_index
            <= NextAnswerIndex(tables[strand.selected_subgoal.subgoal_table])

\* C36: every strand with a selected subgoal, queued in a table, stashed at
\* a frame, held by a pending request or in hand, has an answer_index of at
\* most the number of answers of its subgoal table; no request fails the
\* assertion next_answer_index == answer of ensure_answer_recursively.
C36_MonotoneRequests ==
    /\ \A t \in 1..Len(tables) :
           \A i \in 1..Len(tables[t].strands) : MonotoneRequest(tables[t].strands[i])
    /\ \A f \in 1..Len(ctl) :
           /\ ctl[f].kind = "ensure" =>
                  \A i \in 1..Len(ctl[f].cyclic_strands) :
                      MonotoneRequest(ctl[f].cyclic_strands[i])
           /\ ctl[f].kind \in {"positive", "negative"} => MonotoneRequest(ctl[f].strand)
    /\ pc \in {"strand", "ret_strand"} => MonotoneRequest(reg.strand)
    /\ pc = "ensure" =>
           EnsureDecision(tables, stack, reg.table, reg.answer) # "AssertFailed"
    /\ pc = "panic" => reg.at # "assert_eq!(next_answer_index, answer)"

\* A strand asks its subgoal table, which has answers 0 and 1, for the
\* answer after them
C36_Witness ==
    /\ pc = "ensure"
    /\ Len(ctl) >= 2
    /\ Top.kind \in {"positive", "negative"}
    /\ reg.answer = 2
    /\ reg.answer = NextAnswerIndex(tables[reg.table])

\* C38: when cycle() takes the delay case and returns None, the walk has
\* converted at least one strand: the tables afterwards are not merely the
\* tables with the stashed strands back in the queue of the current table.
C38_DelayConvertsAStrand ==
    [][(AtCycle("delay") /\ pc' # "panic") =>
           tables' # ExtendStrands(tables, Top.table, Top.cyclic_strands)]_vars

\* cycle() is about to walk the tables: its clear case or its delay case
WalkCalled ==
    /\ CycleCalled
    /\ CycleCase(Top.cyclic_minimums, stack[Top.depth].dfn) \in {"clear", "delay"}

\* The tables as the walk finds them, the stashed strands counted with the
\* table of the frame
TablesWalked == ExtendStrands(tables, Top.table, Top.cyclic_strands)

\* The strand has a selected subgoal that is one of its subgoals
SelectionValid(strand) ==
    /\ strand.selected_subgoal # NoSelected
    /\ strand.selected_subgoal.subgoal_index \in 1..Len(strand.ex_clause.subgoals)

\* C37: when cycle() starts the clear walk or the delay walk, every strand
\* of every table the walk can reach through selected subgoals, the stashed
\* strands included, has a selected subgoal that indexes one of its
\* subgoals; neither walk ever panics.
C37_WalksNeverPanic ==
    /\ WalkCalled =>
           \A t \in ReachableIn(TablesWalked, {Top.table}) :
               \A i \in 1..Len(TablesWalked[t].strands) :
                   SelectionValid(TablesWalked[t].strands[i])
    /\ pc = "panic" =>
           reg.at \notin {"clear_strands_after_cycle", "delay_strands_after_cycle"}

\* A walk is about to start over more than one table, one of them holding a
\* strand that an earlier delay walk has converted and that has selected
\* another subgoal since
C37_Witness ==
    /\ WalkCalled
    /\ Cardinality(ReachableIn(TablesWalked, {Top.table})) >= 2
    /\ \E t \in ReachableIn(TablesWalked, {Top.table}) :
           \E i \in 1..Len(TablesWalked[t].strands) :
               \E k \in 1..Len(TablesWalked[t].strands[i].ex_clause.delayed_literals) :
                   TablesWalked[t].strands[i].ex_clause.delayed_literals[k].kind = "Negative"

====
